---- MODULE Spec2Model ----
(***************************************************************************)
(* Model of the k8sattributes processor's WatchClient                      *)
(* (processor/k8sattributesprocessor/internal/kube/client.go): the pod     *)
(* table, the identifier derivation, the pod watch handlers and the        *)
(* delayed eviction of deleted pods.                                       *)
(*                                                                         *)
(* Tasks of the program that appear here:                                  *)
(*   - the pod informer goroutine, which runs handlePodAdd,                *)
(*     handlePodUpdate and handlePodDelete one after the other;            *)
(*   - the deleteLoop goroutine started by New;                            *)
(*   - callers of GetPod;                                                  *)
(*   - the wall clock (time.Now), an integer that only grows.              *)
(***************************************************************************)
EXTENDS Integers, Sequences, FiniteSets, TLC

\* ------------------------------------------------------------------------
\* Bounds of the model
\* ------------------------------------------------------------------------

\* the clock runs from 0 to MaxTime
MaxTime == 2

\* number of requests the delete queue may hold
MaxQueue == 3

\* number of pod notifications and of GetPod calls in one behaviour
MaxEvents == 4

\* ------------------------------------------------------------------------
\* Program constants
\* ------------------------------------------------------------------------

\* gracePeriod parameter of deleteLoop, in clock units
gracePeriod == 2

ConnectionSource == "connection"

ResourceSource == "resource_attribute"

K8sIPLabelName == "k8s.pod.ip"

K8SPodUIDKey == "k8s.pod.uid"

K8SPodNameKey == "k8s.pod.name"

K8SNamespaceNameKey == "k8s.namespace.name"

HostNameKey == "host.name"

ContainerIDKey == "container.id"

\* tagHostName
tagHostName == "k8s.pod.hostname"

\* tagNodeName
tagNodeName == "k8s.node.name"

PodIdentifierMaxLength == 4

\* a *meta_v1.Time that is nil
NoTime == 0

\* ------------------------------------------------------------------------
\* Configuration (fields of WatchClient set by New and never changed)
\* ------------------------------------------------------------------------

\* c.Rules: the extraction rules that decide the pod attributes
Rules ==
  [PodName |-> TRUE, PodHostName |-> TRUE, PodUID |-> FALSE, PodIP |-> FALSE,
   Namespace |-> FALSE, ContainerID |-> TRUE]

\* the values c.Associations takes in the model: no rule, so that a pod is
\* stored under the identifiers getIdentifiersFromAssoc always appends (pod
\* UID, connection address, k8s.pod.ip)
AssocConfigs == { << >> }

\* ------------------------------------------------------------------------
\* Inputs: the pods the API server reports
\* ------------------------------------------------------------------------

PodNames == {"a", "b"}

\* UID of the pod object of a given name
UIDOf(name) == IF name = "a" THEN "u1" ELSE "u2"

\* an *api_v1.Pod payload: metadata, Spec.Hostname, Spec.HostNetwork,
\* Status.PodIP, Status.StartTime and the ContainerID of each entry of
\* Status.ContainerStatuses
ApiPodFull(n, uid, ip, hn, host, st, ig, cs) ==
  [Name |-> n, Namespace |-> "ns", UID |-> uid, PodIP |-> ip,
   HostNetwork |-> hn, Hostname |-> host, StartTime |-> st, Ignored |-> ig,
   ContainerStatuses |-> cs, OwnerReplicaSet |-> ""]

\* the payload of a pod without containers on the pod network
ApiPod(n, ip, st, ig) == ApiPodFull(n, UIDOf(n), ip, FALSE, "", st, ig, << >>)

\* the payloads of the notifications: pod a has the address ip1 and any start
\* time, also none; pod b started at 1 and either reuses ip1 or has no address
\* yet, and may then carry the ignore annotation
ApiPods ==
  { ApiPod("a", "ip1", st, FALSE) : st \in {NoTime, 1, 2} }
  \cup { ApiPod("b", "ip1", 1, FALSE) }
  \cup { ApiPod("b", "", 1, ig) : ig \in BOOLEAN }

\* ------------------------------------------------------------------------
\* Identifiers (PodIdentifier: a fixed-size array of attributes)
\* ------------------------------------------------------------------------

\* the zero value of PodIdentifierAttribute
ZeroAttr == [Source |-> [From |-> "", Name |-> ""], Value |-> ""]

\* the zero value of PodIdentifier
ZeroIdentifier == [i \in 1..PodIdentifierMaxLength |-> ZeroAttr]

PodIdentifierAttributeFromSource(source, value) ==
  [Source |-> source, Value |-> value]

PodIdentifierAttributeFromConnection(value) ==
  [Source |-> [From |-> ConnectionSource, Name |-> ""], Value |-> value]

PodIdentifierAttributeFromResourceAttribute(key, value) ==
  [Source |-> [From |-> ResourceSource, Name |-> key], Value |-> value]

\* the composite literal PodIdentifier{attr}: attr first, zero values after
PodIdentifierOf(attr) == [ZeroIdentifier EXCEPT ![1] = attr]

\* a set of strings as a sequence (the order of maps.Keys is not specified)
RECURSIVE SetToSeq(_)
SetToSeq(S) ==
  IF S = {} THEN << >>
  ELSE LET x == CHOOSE y \in S : TRUE IN << x >> \o SetToSeq(S \ {x})

\* ------------------------------------------------------------------------
\* Building a Pod record from an API pod
\* ------------------------------------------------------------------------

\* shouldIgnorePod: the ignore annotation or an exclude pattern matches
shouldIgnorePod(pod) == pod.Ignored

\* extractPodAttributes, for the rules of Rules
extractPodAttributes(pod) ==
  LET keys == (IF Rules.PodName THEN {K8SPodNameKey} ELSE {})
              \cup (IF Rules.PodHostName THEN {tagHostName} ELSE {})
              \cup (IF Rules.PodIP THEN {K8sIPLabelName} ELSE {})
              \cup (IF Rules.Namespace THEN {K8SNamespaceNameKey} ELSE {})
              \cup (IF Rules.PodUID THEN {K8SPodUIDKey} ELSE {})
  IN [k \in keys |->
        CASE k = K8SPodNameKey -> pod.Name
          [] k = tagHostName -> pod.Hostname
          [] k = K8sIPLabelName -> pod.PodIP
          [] k = K8SNamespaceNameKey -> pod.Namespace
          [] k = K8SPodUIDKey -> pod.UID]

needContainerAttributes(rules) == rules.ContainerID

\* a container ID as the API reports it: runtime prefix, "://", identifier;
\* a container that has not started has the empty ID
ContainerIDOf(runtime, cid) == [Runtime |-> runtime, ID |-> cid]

\* strings.Split(containerID, "://"): the part after the runtime prefix
stripRuntimePrefix(containerID) == containerID.ID

\* extractPodContainersAttributes: the keys of Containers.ByID, one per
\* distinct container ID of the statuses
extractPodContainersAttributes(pod) ==
  IF needContainerAttributes(Rules)
    THEN { stripRuntimePrefix(pod.ContainerStatuses[k]) :
             k \in 1..Len(pod.ContainerStatuses) }
    ELSE {}

\* podFromAPI, up to what it takes from the stores of the other kinds: the
\* DeploymentUID and the deployment and cluster attributes are filled in by
\* the steps that read c.ReplicaSets and c.Namespaces
podFromAPI(pod) ==
  [Name |-> pod.Name,
   Namespace |-> pod.Namespace,
   DeploymentUID |-> "",
   Address |-> pod.PodIP,
   HostNetwork |-> pod.HostNetwork,
   PodUID |-> pod.UID,
   StartTime |-> pod.StartTime,
   Ignore |-> shouldIgnorePod(pod),
   Attributes |-> IF shouldIgnorePod(pod) THEN << >> ELSE extractPodAttributes(pod),
   Containers |-> IF shouldIgnorePod(pod) THEN {}
                  ELSE extractPodContainersAttributes(pod)]

\* ------------------------------------------------------------------------
\* getIdentifiersFromAssoc
\* ------------------------------------------------------------------------

\* the value a resource-attribute source resolves to ("" when there is none)
resourceAttr(pod, name) ==
  CASE name = K8SNamespaceNameKey -> pod.Namespace
    [] name = K8SPodNameKey -> pod.Name
    [] name = K8SPodUIDKey -> pod.PodUID
    [] name = HostNameKey -> pod.Address
    [] name = K8sIPLabelName -> pod.Address
    [] name = ContainerIDKey -> ""
    [] OTHER -> IF name \in DOMAIN pod.Attributes THEN pod.Attributes[name] ELSE ""

\* one pass of the loop over assoc.Sources; st holds ret, skip and
\* retID4containerID (0 when no container.id source was seen; positions
\* count from 1).  A break leaves the switch only, so the loop goes on
\* with the next source.
RECURSIVE sourcesLoop(_, _, _, _)
sourcesLoop(pod, sources, i, st) ==
  IF i > Len(sources) THEN st
  ELSE
    LET source == sources[i]
        st1 ==
          IF source.From = ConnectionSource THEN
            IF pod.Address = "" \/ pod.HostNetwork
              THEN [st EXCEPT !.skip = TRUE]
              ELSE [st EXCEPT !.ret[i] =
                      PodIdentifierAttributeFromSource(source, pod.Address)]
          ELSE IF source.From = ResourceSource THEN
            LET cid == IF source.Name = ContainerIDKey THEN i ELSE st.cid
                attr == resourceAttr(pod, source.Name)
            IN IF attr = "" /\ cid = 0
                 THEN [st EXCEPT !.skip = TRUE]
                 ELSE [st EXCEPT !.cid = cid,
                                 !.ret[i] = PodIdentifierAttributeFromSource(source, attr)]
          ELSE st
    IN sourcesLoop(pod, sources, i + 1, st1)

\* an association that contributes at most one identifier, for the first
\* container ID
assocIdentifiersFirstContainer(pod, assoc) ==
  LET st == sourcesLoop(pod, assoc.Sources, 1,
                        [ret |-> ZeroIdentifier, skip |-> FALSE, cid |-> 0])
      cIDs == SetToSeq(pod.Containers)
  IN IF st.skip THEN << >>
     ELSE IF st.cid # 0
       THEN [k \in 1..(IF cIDs = << >> THEN 0 ELSE 1) |->
               [st.ret EXCEPT ![st.cid] =
                  PodIdentifierAttributeFromSource(
                    [From |-> ResourceSource, Name |-> ContainerIDKey], cIDs[k])]]
       ELSE << st.ret >>

\* the identifiers one association contributes
assocIdentifiers(pod, assoc) ==
  LET st == sourcesLoop(pod, assoc.Sources, 1,
                        [ret |-> ZeroIdentifier, skip |-> FALSE, cid |-> 0])
      cIDs == SetToSeq(pod.Containers)
  IN IF st.skip THEN << >>
     ELSE IF st.cid # 0
       THEN [k \in 1..Len(cIDs) |->
               [st.ret EXCEPT ![st.cid] =
                  PodIdentifierAttributeFromSource(
                    [From |-> ResourceSource, Name |-> ContainerIDKey], cIDs[k])]]
       ELSE << st.ret >>

RECURSIVE assocsLoop(_, _, _)
assocsLoop(pod, assocs, i) ==
  IF i > Len(assocs) THEN << >>
  ELSE assocIdentifiers(pod, assocs[i]) \o assocsLoop(pod, assocs, i + 1)

\* fallback identifiers without the one for k8s.pod.ip
fallbackIdentifiersWithoutPodIP(pod) ==
  (IF pod.PodUID # ""
     THEN << PodIdentifierOf(PodIdentifierAttributeFromResourceAttribute(K8SPodUIDKey, pod.PodUID)) >>
     ELSE << >>)
  \o
  (IF pod.Address # "" /\ ~pod.HostNetwork
     THEN << PodIdentifierOf(PodIdentifierAttributeFromConnection(pod.Address)) >>
     ELSE << >>)

\* fallback identifiers that do not look at the host network flag
fallbackIdentifiersAnyNetwork(pod) ==
  (IF pod.PodUID # ""
     THEN << PodIdentifierOf(PodIdentifierAttributeFromResourceAttribute(K8SPodUIDKey, pod.PodUID)) >>
     ELSE << >>)
  \o
  (IF pod.Address # ""
     THEN << PodIdentifierOf(PodIdentifierAttributeFromConnection(pod.Address)),
             PodIdentifierOf(PodIdentifierAttributeFromResourceAttribute(K8sIPLabelName, pod.Address)) >>
     ELSE << >>)

\* the identifiers appended after the rules, for backward compatibility
fallbackIdentifiers(pod) ==
  (IF pod.PodUID # ""
     THEN << PodIdentifierOf(PodIdentifierAttributeFromResourceAttribute(K8SPodUIDKey, pod.PodUID)) >>
     ELSE << >>)
  \o
  (IF pod.Address # "" /\ ~pod.HostNetwork
     THEN << PodIdentifierOf(PodIdentifierAttributeFromConnection(pod.Address)),
             PodIdentifierOf(PodIdentifierAttributeFromResourceAttribute(K8sIPLabelName, pod.Address)) >>
     ELSE << >>)

getIdentifiersFromAssoc(assocs, pod) ==
  assocsLoop(pod, assocs, 1) \o fallbackIdentifiers(pod)

\* ------------------------------------------------------------------------
\* State
\* ------------------------------------------------------------------------

VARIABLES
  Pods,          \* c.Pods: the identifiers in the table, each with its record
  deleteQueue,   \* c.deleteQueue: the requests, head first
  Associations,  \* c.Associations
  now,           \* the wall clock, what time.Now() returns
  podPC,         \* where the pod informer goroutine is
  newPod,        \* the record the pod handler built with podFromAPI (kept after
                 \* addOrUpdatePod returns, until the next notification)
  ids,           \* forgetPod: the identifiers not yet looked at
  dlPC,          \* where the deleteLoop goroutine is
  toDelete,      \* deleteLoop: the requests cut from the queue on this tick
  got,           \* the last call of GetPod: its argument and what it returned
  nEvents,       \* number of pod notifications and GetPod calls so far
  known,         \* the names of the pods in the informer's store
  latest         \* per pod UID, the latest start time an Add/Update carried
                 \* since the UID's entry was last evicted (history)

\* the state of Start and of the watch streams
VARIABLES
  settings,      \* what New was given: the extraction rules that decide which
                 \* informers exist, and waitForMetadata
  startPC,       \* where Start is
  launched,      \* the kinds whose informer Start has run, in that order
  stream,        \* per kind, the state of its informer
  depTimer,      \* the 5s timer of runInformerWithDependencies
  mdTimer,       \* the waitForMetadataTimeout timer of Start
  startResult    \* what Start returned

\* the pod table, the delete queue and their goroutines
cacheVars == << Pods, deleteQueue, Associations, now, podPC, newPod, ids, dlPC,
                toDelete, got, nEvents, known, latest >>

\* the stores of the other kinds, the lock c.m and what the pod handler is
\* doing with them
VARIABLES
  ReplicaSets,   \* c.ReplicaSets: per replica set UID, its Deployment
  Namespaces,    \* c.Namespaces: per namespace name, its NamespaceUID
  mLock,         \* c.m: "free", or the goroutine that holds the write lock
  pending,       \* the write the holder of c.m makes before it unlocks
  ownerRS,       \* getPodReplicaSetUID(pod) of the pod being handled
  access         \* the last access of the pod handler to a shared map, and the
                 \* lock it held

\* the stores of the nodes, deployments and stateful sets, and the callers
\* of the getters
VARIABLES
  Nodes,         \* c.Nodes: per node name, its NodeUID
  Deployments,   \* c.Deployments: per deployment UID, its Name
  StatefulSets,  \* c.StatefulSets: per stateful set UID, its Name
  lookup,        \* the last call of a getter of these kinds: the kind, the key
                 \* and what it returned
  stopCh,        \* c.stopCh: "open" or "closed"
  terminated     \* the goroutines that have returned: informers by kind, and
                 \* "deleteLoop"

startVars == << settings, startPC, launched, stream, depTimer, mdTimer, startResult >>

storeVars == << ReplicaSets, Namespaces, mLock, pending, ownerRS, access >>

\* the call of New, and the locks c.deleteMut and c.m as the goroutines
\* take and release them
VARIABLES
  construction,  \* New: where it is, the Client and the error it has returned,
                 \* and whether it has started deleteLoop
  deleteMut,     \* c.deleteMut: "free", or the goroutine that holds it
  mReaders,      \* c.m: the goroutines that hold it for reading
  mWaiting,      \* c.m: the goroutines that have called Lock() and wait
  taskPC         \* per goroutine, the lock operations of the function it
                 \* runs and the position of the next one

lockVars == << deleteMut, mReaders, mWaiting, taskPC >>

\* the remote write exporter and one call of pushMetricsV2
VARIABLES
  concurrency,   \* prwe.concurrency
  ctx,           \* the context of the call: "live", or "done" once cancelled
  call,          \* pushMetricsV2 and the functions it calls: where the call
                 \* is, what the translation and the batching returned,
                 \* what was recorded and logged, and the results
  input,         \* exportV2: the requests in the closed channel input
  workers,       \* exportV2: per worker goroutine, where it is and the
                 \* request it holds
  errs,          \* exportV2: the errors appended to errs, in order
  sent           \* per request, how often execute was called with it and
                 \* what Marshal and execute returned (history)

exportVars == << concurrency, ctx, call, input, workers, errs, sent >>

newVars == << construction, lockVars, exportVars >>

objectVars == << Nodes, Deployments, StatefulSets, lookup, stopCh, terminated, newVars >>

watchVars == << startVars, storeVars, objectVars >>

vars == << cacheVars, watchVars >>

\* the goroutines that take the locks: deleteLoop, the pod informer, the
\* informer of another kind, and a caller of the getters
Tasks == { "deleteLoop", "podInformer", "informer", "caller" }

\* a goroutine between two functions
Idle == [ops |-> << >>, i |-> 1]

\* New has returned the client and no error
Built == [pc |-> "returned", client |-> "c", err |-> "nil", deleteLoop |-> TRUE]

\* number of requests one call of exportV2 is given
MaxRequests == 3

\* largest value of prwe.concurrency
MaxConcurrency == 2

RequestIds == 1..MaxRequests

Workers == 1..MaxConcurrency

\* pushMetricsV2 has not been called
NoCall ==
  [pc |-> "idle", series |-> 0, err |-> "nil", recorded |-> FALSE,
   failures |-> 0, logged |-> FALSE, batched |-> FALSE, requests |-> 0,
   started |-> 0, exportResult |-> "none", result |-> "none"]

\* a worker goroutine that was not started
NoWorker == [pc |-> "none", request |-> 0]

\* a request that no worker has taken
NotSent == [executes |-> 0, marshal |-> "none", execute |-> "none"]

\* the exporter between two calls of pushMetricsV2
ExporterIdle ==
  /\ ctx = "live"
  /\ call = NoCall
  /\ input = << >>
  /\ workers = [w \in Workers |-> NoWorker]
  /\ errs = << >>
  /\ sent = [r \in RequestIds |-> NotSent]

\* New has returned the client, and no goroutine is in a function that
\* takes a lock
Constructed ==
  /\ construction = Built
  /\ deleteMut = "free"
  /\ mReaders = {}
  /\ mWaiting = {}
  /\ taskPC = [t \in Tasks |-> Idle]
  /\ concurrency = 1
  /\ ExporterIdle

\* the zero value of Pod, for "no record"
NoPod ==
  [Name |-> "", Namespace |-> "", DeploymentUID |-> "", Address |-> "",
   HostNetwork |-> FALSE, PodUID |-> "", StartTime |-> NoTime, Ignore |-> FALSE,
   Attributes |-> << >>, Containers |-> {}]

UIDs == { UIDOf(n) : n \in PodNames }

\* every identifier a pod of the model can be stored under
AllIdentifiers ==
  UNION { { getIdentifiersFromAssoc(a, podFromAPI(p))[k] :
              k \in 1..Len(getIdentifiersFromAssoc(a, podFromAPI(p))) } :
          a \in AssocConfigs, p \in ApiPods }

\* the kinds of objects other than pods, in the order Start looks at them
StartOrder == << "ReplicaSet", "Namespace", "Node", "Deployment", "StatefulSet" >>

Kinds == { StartOrder[k] : k \in 1..Len(StartOrder) } \cup { "Pod" }

\* no write is pending
NoWrite == [op |-> "none", key |-> "", value |-> [Name |-> "", UID |-> ""]]

\* the pod handler has not touched a shared map
NoAccess == [map |-> "", lock |-> ""]

\* the settings of a client that extracts nothing from other kinds and does
\* not wait for metadata
PlainSettings ==
  [DeploymentName |-> FALSE, DeploymentUID |-> FALSE, ClusterUID |-> FALSE,
   NamespaceMetadata |-> FALSE, NodeMetadata |-> FALSE, NodeUID |-> FALSE,
   DeploymentMetadata |-> FALSE, StatefulSetMetadata |-> FALSE,
   StatefulSetUID |-> FALSE, waitForMetadata |-> FALSE]

\* a rule of c.Rules.Labels or c.Rules.Annotations has From = MetadataFromNamespace
extractNamespaceLabelsAnnotations == settings.NamespaceMetadata

\* a rule of c.Rules.Labels or c.Rules.Annotations has From = MetadataFromDeployment
extractDeploymentLabelsAnnotations == settings.DeploymentMetadata

\* a rule of c.Rules.Labels or c.Rules.Annotations has From = MetadataFromStatefulSet
extractStatefulSetLabelsAnnotations == settings.StatefulSetMetadata

\* a rule of c.Rules.Labels or c.Rules.Annotations has From = MetadataFromNode
extractNodeLabelsAnnotations == settings.NodeMetadata

\* c.Rules.NodeUID
extractNodeUID == settings.NodeUID

\* no record of a store of the other kinds
NoLookup == [kind |-> "", key |-> "", record |-> "", found |-> FALSE]

\* a New that creates the informer of every kind
informerCreatedAlways(kind) == TRUE

\* a New that creates the deployment and stateful set informers for their
\* UID rules as well
informerCreatedForUID(kind) ==
  CASE kind = "ReplicaSet" -> settings.DeploymentName \/ settings.DeploymentUID
    [] kind = "Namespace" -> TRUE
    [] kind = "Node" -> settings.NodeMetadata \/ settings.NodeUID
    [] kind = "Deployment" -> settings.DeploymentMetadata \/ settings.DeploymentUID
    [] kind = "StatefulSet" -> settings.StatefulSetMetadata \/ settings.StatefulSetUID
    [] kind = "Pod" -> TRUE

\* New creates the informer of the kind: always for namespaces and pods, for
\* replica sets when a deployment rule is set, for nodes when their labels,
\* annotations or UID are extracted, for deployments and stateful sets when
\* their labels or annotations are extracted
informerCreated(kind) ==
  CASE kind = "ReplicaSet" -> settings.DeploymentName \/ settings.DeploymentUID
    [] kind = "Namespace" -> TRUE
    [] kind = "Node" -> extractNodeLabelsAnnotations \/ extractNodeUID
    [] kind = "Deployment" -> extractDeploymentLabelsAnnotations
    [] kind = "StatefulSet" -> extractStatefulSetLabelsAnnotations
    [] kind = "Pod" -> TRUE

\* the state of a client with PlainSettings after Start has returned and the
\* namespace and pod informers have synced
WatchStarted ==
  /\ settings = PlainSettings
  /\ startPC = "returned"
  /\ launched = << "Namespace" >>
  /\ stream = [k \in Kinds |-> IF k \in {"Namespace", "Pod"} THEN "synced" ELSE "idle"]
  /\ depTimer = "off"
  /\ mdTimer = "off"
  /\ startResult = "nil"
  /\ ReplicaSets = << >>
  /\ Namespaces = << >>
  /\ mLock = "free"
  /\ pending = NoWrite
  /\ ownerRS = ""
  /\ access = NoAccess
  /\ Nodes = << >>
  /\ Deployments = << >>
  /\ StatefulSets = << >>
  /\ lookup = NoLookup
  /\ stopCh = "open"
  /\ terminated = {}
  /\ Constructed

\* the state New leaves: empty maps, an empty queue, deleteLoop started; the
\* watch streams are up
Init ==
  /\ WatchStarted
  /\ Pods = << >>
  /\ deleteQueue = << >>
  /\ Associations \in AssocConfigs
  /\ now = 0
  /\ podPC = "idle"
  /\ newPod = NoPod
  /\ ids = << >>
  /\ dlPC = "wait"
  /\ toDelete = << >>
  /\ got = [id |-> ZeroIdentifier, pod |-> NoPod, ok |-> FALSE]
  /\ nEvents = 0
  /\ known = {}
  /\ latest = [u \in UIDs |-> NoTime]

\* ------------------------------------------------------------------------
\* Pure helpers of the handlers
\* ------------------------------------------------------------------------

\* a comparison under which the stored record also wins a tie
BeforeOrEqual(t, u) == t # NoTime /\ u # NoTime /\ t <= u

\* a comparison that never finds the new pod older
BeforeNever(t, u) == FALSE

\* (*meta_v1.Time).Before: false when either side is nil
Before(t, u) == t # NoTime /\ u # NoTime /\ t < u

\* c.Pods[id] = record
MapSet(m, id, record) ==
  [k \in DOMAIN m \cup {id} |-> IF k = id THEN record ELSE m[k]]

\* delete(c.Pods, id)
MapDelete(m, id) == [k \in DOMAIN m \ {id} |-> m[k]]

\* a loop that stores the record under the first identifier only
putLoopFirstOnly(m, idSeq, i, record) ==
  IF idSeq = << >> THEN m ELSE MapSet(m, idSeq[1], record)

\* the loop of addOrUpdatePod over the identifiers, from position i
RECURSIVE putLoop(_, _, _, _)
putLoop(m, idSeq, i, record) ==
  IF i > Len(idSeq) THEN m
  ELSE
    LET id == idSeq[i] IN
    IF id \in DOMAIN m /\ Before(record.StartTime, m[id].StartTime)
      THEN putLoop(m, idSeq, i + 1, record)
      ELSE putLoop(MapSet(m, id, record), idSeq, i + 1, record)

\* a GetPod that returns whatever the table holds
GetPodAny(id) ==
  IF id \in DOMAIN Pods
    THEN [pod |-> Pods[id], ok |-> TRUE]
    ELSE [pod |-> NoPod, ok |-> FALSE]

\* GetPod: the record and whether it was found; ignored records are hidden
GetPod(id) ==
  IF id \in DOMAIN Pods
    THEN IF Pods[id].Ignore
           THEN [pod |-> NoPod, ok |-> FALSE]
           ELSE [pod |-> Pods[id], ok |-> TRUE]
    ELSE [pod |-> NoPod, ok |-> FALSE]

\* a scan that does not look at the grace period
cutoffWholeQueue(q, i, t) == Len(q)

\* the scan of deleteLoop: the number of requests at the head of the queue
\* whose grace period is over at time t
RECURSIVE cutoffFrom(_, _, _)
cutoffFrom(q, i, t) ==
  IF i > Len(q) THEN Len(q)
  ELSE IF q[i].ts + gracePeriod > t THEN i - 1
  ELSE cutoffFrom(q, i + 1, t)

\* the loop over toDelete without the check of the name
RECURSIVE applyLoopNoNameCheck(_, _, _)
applyLoopNoNameCheck(m, reqs, i) ==
  IF i > Len(reqs) THEN m
  ELSE applyLoopNoNameCheck(MapDelete(m, reqs[i].id), reqs, i + 1)

\* the loop over toDelete that stops after the first removal
RECURSIVE applyLoopFirstOnly(_, _, _)
applyLoopFirstOnly(m, reqs, i) ==
  IF i > Len(reqs) THEN m
  ELSE
    LET d == reqs[i] IN
    IF d.id \in DOMAIN m /\ m[d.id].Name = d.podName
      THEN MapDelete(m, d.id)
      ELSE applyLoopFirstOnly(m, reqs, i + 1)

\* the loop of deleteLoop over toDelete, from position i
RECURSIVE applyLoop(_, _, _)
applyLoop(m, reqs, i) ==
  IF i > Len(reqs) THEN m
  ELSE
    LET d == reqs[i] IN
    IF d.id \in DOMAIN m /\ m[d.id].Name = d.podName
      THEN applyLoop(MapDelete(m, d.id), reqs, i + 1)
      ELSE applyLoop(m, reqs, i + 1)

Max(a, b) == IF a >= b THEN a ELSE b

\* the fallback identifier of a pod UID
uidIdentifier(uid) ==
  PodIdentifierOf(PodIdentifierAttributeFromResourceAttribute(K8SPodUIDKey, uid))

\* ------------------------------------------------------------------------
\* The pod informer goroutine
\* ------------------------------------------------------------------------

\* handlePodAdd, up to the call of podFromAPI in addOrUpdatePod; the informer
\* sends Add for a pod that is not in its store
handlePodAdd(pod) ==
  /\ podPC = "idle"
  /\ pod.Name \notin known
  /\ known' = known \cup {pod.Name}
  /\ nEvents < MaxEvents
  /\ nEvents' = nEvents + 1
  /\ newPod' = podFromAPI(pod)
  /\ podPC' = "addOrUpdatePod"
  /\ UNCHANGED watchVars
  /\ UNCHANGED << Pods, deleteQueue, Associations, now, ids, dlPC, toDelete, got, latest >>

\* handlePodUpdate(_, newPod), up to the call of podFromAPI in addOrUpdatePod;
\* the informer sends Update for a pod that is in its store
handlePodUpdate(pod) ==
  /\ podPC = "idle"
  /\ pod.Name \in known
  /\ nEvents < MaxEvents
  /\ nEvents' = nEvents + 1
  /\ newPod' = podFromAPI(pod)
  /\ podPC' = "addOrUpdatePod"
  /\ UNCHANGED watchVars
  /\ UNCHANGED << Pods, deleteQueue, Associations, now, ids, dlPC, toDelete, got, known, latest >>

\* an addOrUpdatePod that derives the identifiers from the record and then
\* stores the record without its address
addOrUpdatePodWithoutAddress ==
  /\ podPC = "addOrUpdatePod"
  /\ Pods' = putLoop(Pods, getIdentifiersFromAssoc(Associations, newPod), 1,
                     [newPod EXCEPT !.Address = ""])
  /\ latest' = IF newPod.PodUID \in UIDs
                  THEN [latest EXCEPT ![newPod.PodUID] = Max(@, newPod.StartTime)]
                  ELSE latest
  /\ podPC' = "idle"
  /\ UNCHANGED watchVars
  /\ UNCHANGED << deleteQueue, Associations, now, newPod, ids, dlPC, toDelete, got,
                  nEvents, known >>

\* addOrUpdatePod from c.m.Lock() to the deferred c.m.Unlock(), and the return
\* of the handler
addOrUpdatePod ==
  /\ podPC = "addOrUpdatePod"
  /\ Pods' = putLoop(Pods, getIdentifiersFromAssoc(Associations, newPod), 1, newPod)
  /\ latest' = IF newPod.PodUID \in UIDs
                  THEN [latest EXCEPT ![newPod.PodUID] = Max(@, newPod.StartTime)]
                  ELSE latest
  /\ podPC' = "idle"
  /\ UNCHANGED watchVars
  /\ UNCHANGED << deleteQueue, Associations, now, newPod, ids, dlPC, toDelete, got,
                  nEvents, known >>

\* handlePodDelete, up to the loop of forgetPod; the informer sends Delete for
\* a pod that is in its store
handlePodDelete(pod) ==
  /\ podPC = "idle"
  /\ pod.Name \in known
  /\ known' = known \ {pod.Name}
  /\ nEvents < MaxEvents
  /\ LET podToRemove == podFromAPI(pod)
         idSeq == getIdentifiersFromAssoc(Associations, podToRemove)
     IN /\ Len(deleteQueue) + Len(idSeq) <= MaxQueue
        /\ newPod' = IF idSeq = << >> THEN NoPod ELSE podToRemove
        /\ ids' = idSeq
        /\ podPC' = IF idSeq = << >> THEN "idle" ELSE "forgetPod"
  /\ nEvents' = nEvents + 1
  /\ UNCHANGED watchVars
  /\ UNCHANGED << Pods, deleteQueue, Associations, now, dlPC, toDelete, got, latest >>

\* an appendDeleteQueue that puts the request at the head of the queue
appendDeleteQueueAtHead(q, podID, podName, t) ==
  << [id |-> podID, podName |-> podName, ts |-> t] >> \o q

\* appendDeleteQueue
appendDeleteQueue(q, podID, podName, t) ==
  Append(q, [id |-> podID, podName |-> podName, ts |-> t])

\* a forgetPod without the delay: the entry is removed in the handler
forgetPodNow ==
  /\ podPC = "forgetPod"
  /\ LET id == Head(ids)
         r == GetPod(id)
     IN Pods' =
          IF r.ok /\ r.pod.Name = newPod.Name
            THEN MapDelete(Pods, id)
            ELSE Pods
  /\ ids' = Tail(ids)
  /\ podPC' = IF Tail(ids) = << >> THEN "idle" ELSE "forgetPod"
  /\ newPod' = IF Tail(ids) = << >> THEN NoPod ELSE newPod
  /\ UNCHANGED watchVars
  /\ UNCHANGED << deleteQueue, Associations, now, dlPC, toDelete, got, nEvents, known, latest >>

\* one pass of the loop of forgetPod: GetPod, then appendDeleteQueue when the
\* entry found has the name of the deleted pod; after the last identifier the
\* handler returns
forgetPod ==
  /\ podPC = "forgetPod"
  /\ LET id == Head(ids)
         r == GetPod(id)
     IN deleteQueue' =
          IF r.ok /\ r.pod.Name = newPod.Name
            THEN appendDeleteQueue(deleteQueue, id, newPod.Name, now)
            ELSE deleteQueue
  /\ ids' = Tail(ids)
  /\ podPC' = IF Tail(ids) = << >> THEN "idle" ELSE "forgetPod"
  /\ newPod' = IF Tail(ids) = << >> THEN NoPod ELSE newPod
  /\ UNCHANGED watchVars
  /\ UNCHANGED << Pods, Associations, now, dlPC, toDelete, got, nEvents, known, latest >>

\* ------------------------------------------------------------------------
\* The deleteLoop goroutine
\* ------------------------------------------------------------------------

\* a scan that cuts a request only at the very moment its grace period ends
RECURSIVE cutoffExact(_, _, _)
cutoffExact(q, i, t) ==
  IF i > Len(q) THEN Len(q)
  ELSE IF q[i].ts + gracePeriod # t THEN i - 1
  ELSE cutoffExact(q, i + 1, t)

\* a pass of deleteLoop with that scan
deleteLoopScanExact ==
  /\ dlPC = "wait"
  /\ LET cutoff == cutoffExact(deleteQueue, 1, now)
     IN /\ toDelete' = SubSeq(deleteQueue, 1, cutoff)
        /\ deleteQueue' = SubSeq(deleteQueue, cutoff + 1, Len(deleteQueue))
  /\ dlPC' = "apply"
  /\ UNCHANGED watchVars
  /\ UNCHANGED << Pods, Associations, now, podPC, newPod, ids, got, nEvents, known, latest >>

\* a tick of deleteLoop, the part under c.deleteMut: the scan of the queue
\* and the cut
deleteLoopScan ==
  /\ dlPC = "wait"
  /\ LET cutoff == cutoffFrom(deleteQueue, 1, now)
     IN /\ toDelete' = SubSeq(deleteQueue, 1, cutoff)
        /\ deleteQueue' = SubSeq(deleteQueue, cutoff + 1, Len(deleteQueue))
  /\ dlPC' = "apply"
  /\ UNCHANGED watchVars
  /\ UNCHANGED << Pods, Associations, now, podPC, newPod, ids, got, nEvents, known, latest >>

\* a tick of deleteLoop, the part under c.m: the removals
deleteLoopApply ==
  /\ dlPC = "apply"
  /\ Pods' = applyLoop(Pods, toDelete, 1)
  /\ latest' = [u \in UIDs |->
                  IF uidIdentifier(u) \in DOMAIN Pods /\ uidIdentifier(u) \notin DOMAIN Pods'
                    THEN NoTime ELSE latest[u]]
  /\ dlPC' = "wait"
  /\ UNCHANGED watchVars
  /\ UNCHANGED << deleteQueue, Associations, now, podPC, newPod, ids, toDelete, got, nEvents, known >>

\* ------------------------------------------------------------------------
\* Callers and the clock
\* ------------------------------------------------------------------------

\* a call of GetPod by the processor
GetPodCall(id) ==
  /\ got' = [id |-> id, pod |-> GetPod(id).pod, ok |-> GetPod(id).ok]
  /\ nEvents < MaxEvents
  /\ nEvents' = nEvents + 1
  /\ UNCHANGED watchVars
  /\ UNCHANGED << Pods, deleteQueue, Associations, now, podPC, newPod, ids, dlPC,
                  toDelete, known, latest >>

\* time passes
Tick ==
  /\ now < MaxTime
  /\ now' = now + 1
  /\ UNCHANGED watchVars
  /\ UNCHANGED << Pods, deleteQueue, Associations, podPC, newPod, ids, dlPC,
                  toDelete, got, nEvents, known, latest >>

Next ==
  \/ \E pod \in ApiPods : handlePodAdd(pod)
  \/ \E pod \in ApiPods : handlePodUpdate(pod)
  \/ addOrUpdatePod
  \/ \E pod \in ApiPods : handlePodDelete(pod)
  \/ forgetPod
  \/ deleteLoopScan
  \/ deleteLoopApply
  \/ Tick

\* the writers of the cache: the pod informer, deleteLoop and the clock
Spec == Init /\ [][Next]_vars

\* the writers together with the callers of GetPod
NextGetPod ==
  \/ Next
  \/ \E id \in AllIdentifiers : GetPodCall(id)

SpecGetPod == Init /\ [][NextGetPod]_vars

\* ------------------------------------------------------------------------
\* The identifier derivation under configured association rules
\* ------------------------------------------------------------------------

\* AssociationSource values of the configuration
FromConnection == [From |-> ConnectionSource, Name |-> ""]

FromResource(name) == [From |-> ResourceSource, Name |-> name]

\* an Association with the given sources
Association(sources) == [Sources |-> sources]

\* the rules of the configurations: by connection, by container ID, by an
\* extracted attribute that may be empty (k8s.pod.hostname) or is not
\* extracted at all (k8s.node.name), by pod name and namespace, and rules
\* that pair the container ID or the connection with a second source on
\* either side
AssocRules ==
  { Association(<< FromConnection >>),
    Association(<< FromResource(ContainerIDKey) >>),
    Association(<< FromResource(tagHostName) >>),
    Association(<< FromResource(tagNodeName) >>),
    Association(<< FromResource(K8SPodNameKey), FromResource(K8SNamespaceNameKey) >>),
    Association(<< FromResource(ContainerIDKey), FromResource(tagHostName) >>),
    Association(<< FromResource(tagHostName), FromResource(ContainerIDKey) >>),
    Association(<< FromConnection, FromResource(ContainerIDKey) >>),
    Association(<< FromResource(ContainerIDKey), FromConnection >>),
    Association(<< FromResource(tagHostName), FromConnection >>) }

\* the values of c.Associations: no rule, one rule, or the connection rule
\* after another rule
IdAssocConfigs ==
  { << >> }
  \cup { << r >> : r \in AssocRules }
  \cup { << r, Association(<< FromConnection >>) >> :
           r \in { Association(<< FromResource(ContainerIDKey) >>),
                   Association(<< FromResource(tagHostName) >>) } }

\* the container statuses of a payload: none, one started container, two
\* started containers (under two runtimes), two containers not yet started
IdContainerStatuses ==
  { << >>,
    << ContainerIDOf("docker", "c1") >>,
    << ContainerIDOf("docker", "c1"), ContainerIDOf("containerd", "c2") >>,
    << ContainerIDOf("", ""), ContainerIDOf("", "") >> }

\* the payloads: pod a with or without UID, address, host network, host
\* name and containers, and the payloads of pod b
IdApiPods ==
  { ApiPodFull("a", uid, ip, hn, host, 1, FALSE, cs) :
      uid \in {"", "u1"}, ip \in {"", "ip1"}, hn \in BOOLEAN,
      host \in {"", "h1"}, cs \in IdContainerStatuses }
  \cup { p \in ApiPods : p.Name = "b" }

InitIdentifiers ==
  /\ WatchStarted
  /\ Pods = << >>
  /\ deleteQueue = << >>
  /\ Associations \in IdAssocConfigs
  /\ now = 0
  /\ podPC = "idle"
  /\ newPod = NoPod
  /\ ids = << >>
  /\ dlPC = "wait"
  /\ toDelete = << >>
  /\ got = [id |-> ZeroIdentifier, pod |-> NoPod, ok |-> FALSE]
  /\ nEvents = 0
  /\ known = {}
  /\ latest = [u \in UIDs |-> NoTime]

\* pods are added and looked up under the identifiers in the table
NextIdentifiers ==
  \/ \E pod \in IdApiPods : handlePodAdd(pod)
  \/ addOrUpdatePod
  \/ \E id \in DOMAIN Pods : GetPodCall(id)

SpecIdentifiers == InitIdentifiers /\ [][NextIdentifiers]_vars

\* ------------------------------------------------------------------------
\* Start and the watch streams
\* ------------------------------------------------------------------------

\* the settings New is given in the model: nothing but pods and
\* namespaces; the other kinds and the cluster UID without a deployment
\* rule, waiting for metadata; both deployment rules and the nodes; the
\* deployment name and the cluster UID
WatchSettings ==
  { PlainSettings,
    [PlainSettings EXCEPT !.NodeMetadata = TRUE, !.DeploymentMetadata = TRUE,
                          !.StatefulSetMetadata = TRUE, !.ClusterUID = TRUE,
                          !.waitForMetadata = TRUE],
    [PlainSettings EXCEPT !.DeploymentName = TRUE, !.DeploymentUID = TRUE,
                          !.NodeUID = TRUE],
    [PlainSettings EXCEPT !.DeploymentName = TRUE, !.ClusterUID = TRUE] }

\* the kind Start looks at after kind
nextKind(kind) ==
  IF \E k \in 1..(Len(StartOrder) - 1) : StartOrder[k] = kind
    THEN StartOrder[(CHOOSE k \in 1..(Len(StartOrder) - 1) : StartOrder[k] = kind) + 1]
    ELSE "Pod"

\* the dependencies of the pod informer have all synced
dependenciesSynced ==
  \A k \in 1..Len(launched) : stream[launched[k]] = "synced"

\* Start, for one kind other than pods: when New created its informer, the
\* handlers are registered, HasSynced is appended to synced and the
\* informer is run in a goroutine
StartInformer(kind) ==
  /\ startPC = kind
  /\ kind # "Pod"
  /\ IF informerCreated(kind)
       THEN /\ launched' = Append(launched, kind)
            /\ stream' = [stream EXCEPT ![kind] = "running"]
       ELSE UNCHANGED << launched, stream >>
  /\ startPC' = nextKind(kind)
  /\ UNCHANGED << settings, depTimer, mdTimer, startResult >>
  /\ UNCHANGED << cacheVars, storeVars >>
  /\ UNCHANGED objectVars

\* Start, for pods: the handlers are registered and
\* runInformerWithDependencies is started in a goroutine, which arms its
\* timer and waits when there are dependencies; then Start returns nil at
\* once, or arms its own timer and waits when waitForMetadata is set
StartPodInformer ==
  /\ startPC = "Pod"
  /\ IF Len(launched) > 0
       THEN stream' = [stream EXCEPT !["Pod"] = "waiting"] /\ depTimer' = "armed"
       ELSE stream' = [stream EXCEPT !["Pod"] = "running"] /\ depTimer' = "off"
  /\ IF settings.waitForMetadata
       THEN startPC' = "wait" /\ mdTimer' = "armed" /\ startResult' = startResult
       ELSE startPC' = "returned" /\ mdTimer' = "off" /\ startResult' = "nil"
  /\ UNCHANGED << settings, launched >>
  /\ UNCHANGED << cacheVars, storeVars >>
  /\ UNCHANGED objectVars

\* an informer has delivered its initial list to the handlers: HasSynced of
\* its registration is true from now on
InformerSynced(kind) ==
  /\ stream[kind] = "running"
  /\ kind \notin terminated
  /\ stream' = [stream EXCEPT ![kind] = "synced"]
  /\ UNCHANGED << settings, startPC, launched, depTimer, mdTimer, startResult >>
  /\ UNCHANGED << cacheVars, storeVars >>
  /\ UNCHANGED objectVars

\* the 5s timer of runInformerWithDependencies fires and closes timeoutCh
DependencyTimeout ==
  /\ depTimer = "armed"
  /\ depTimer' = "fired"
  /\ UNCHANGED << settings, startPC, launched, stream, mdTimer, startResult >>
  /\ UNCHANGED << cacheVars, storeVars >>
  /\ UNCHANGED objectVars

\* a pod informer that is run although its dependencies are neither synced
\* nor timed out
runInformerWithDependenciesAtOnce ==
  /\ stream["Pod"] = "waiting"
  /\ stream' = [stream EXCEPT !["Pod"] = "running"]
  /\ depTimer' = depTimer
  /\ UNCHANGED << settings, startPC, launched, mdTimer, startResult >>
  /\ UNCHANGED << cacheVars, storeVars >>
  /\ UNCHANGED objectVars

\* runInformerWithDependencies: WaitForCacheSync returns, because every
\* dependency has synced or because timeoutCh is closed, and the pod
\* informer is run
runInformerWithDependencies ==
  /\ stream["Pod"] = "waiting"
  /\ dependenciesSynced \/ depTimer = "fired"
  /\ stream' = [stream EXCEPT !["Pod"] = "running"]
  /\ depTimer' = depTimer
  /\ UNCHANGED << settings, startPC, launched, mdTimer, startResult >>
  /\ UNCHANGED << cacheVars, storeVars >>
  /\ UNCHANGED objectVars

\* the waitForMetadataTimeout timer of Start fires and closes timeoutCh
MetadataTimeout ==
  /\ mdTimer = "armed"
  /\ mdTimer' = "fired"
  /\ UNCHANGED << settings, startPC, launched, stream, depTimer, startResult >>
  /\ UNCHANGED << cacheVars, storeVars >>
  /\ UNCHANGED objectVars

\* a Start that stops the informers when it gives up
StartReturnsStopping ==
  /\ startPC = "wait"
  /\ \/ stream["Pod"] = "synced" /\ startResult' = "nil" /\ stream' = stream
     \/ /\ mdTimer = "fired"
        /\ startResult' = "error"
        /\ stream' = [k \in Kinds |-> "idle"]
  /\ startPC' = "returned"
  /\ mdTimer' = IF mdTimer = "armed" THEN "off" ELSE mdTimer
  /\ UNCHANGED << settings, launched, depTimer >>
  /\ UNCHANGED << cacheVars, storeVars >>
  /\ UNCHANGED objectVars

\* Start with waitForMetadata: WaitForCacheSync returns true when the pod
\* informer has synced and false when timeoutCh is closed (either, when both
\* hold); Start returns nil or the error, and the deferred t.Stop() runs
StartReturns ==
  /\ startPC = "wait"
  /\ \/ stream["Pod"] = "synced" /\ startResult' = "nil"
     \/ mdTimer = "fired" /\ startResult' = "error"
  /\ startPC' = "returned"
  /\ mdTimer' = IF mdTimer = "armed" THEN "off" ELSE mdTimer
  /\ UNCHANGED << settings, launched, stream, depTimer >>
  /\ UNCHANGED << cacheVars, storeVars >>
  /\ UNCHANGED objectVars

\* ------------------------------------------------------------------------
\* The stores of the other kinds and the pod handler that reads them
\* ------------------------------------------------------------------------

K8SDeploymentNameKey == "k8s.deployment.name"

K8SDeploymentUIDKey == "k8s.deployment.uid"

tagClusterUID == "k8s.cluster.uid"

\* the Deployment of a ReplicaSet record without controlling deployment
NoDeployment == [Name |-> "", UID |-> ""]

\* an owner reference; Controller is "nil", "true" or "false"
OwnerReference(kind, controller, name, uid) ==
  [Kind |-> kind, Controller |-> controller, Name |-> name, UID |-> uid]

\* the owner references of the replica sets of the notifications: none, a
\* deployment that does not control, another kind that controls, the
\* controlling deployment d1 alone, after a deployment that does not
\* control, and before a second controlling deployment
ReplicaSetOwnerReferences ==
  { << >>,
    << OwnerReference("Deployment", "nil", "d2", "du2") >>,
    << OwnerReference("Deployment", "false", "d2", "du2") >>,
    << OwnerReference("Rollout", "true", "d2", "du2") >>,
    << OwnerReference("Deployment", "true", "d1", "du1") >>,
    << OwnerReference("Deployment", "false", "d2", "du2"),
       OwnerReference("Deployment", "true", "d1", "du1") >>,
    << OwnerReference("Deployment", "true", "d1", "du1"),
       OwnerReference("Deployment", "true", "d2", "du2") >> }

\* the replica set objects of the notifications
ApiReplicaSets ==
  { [UID |-> "rs1", OwnerReferences |-> refs] : refs \in ReplicaSetOwnerReferences }

\* a record that takes the last controlling deployment
RECURSIVE controllingDeploymentLast(_, _)
controllingDeploymentLast(refs, i) ==
  IF i > Len(refs) THEN NoDeployment
  ELSE LET rest == controllingDeploymentLast(refs, i + 1)
       IN IF rest # NoDeployment THEN rest
          ELSE IF refs[i].Kind = "Deployment" /\ refs[i].Controller = "true"
            THEN [Name |-> refs[i].Name, UID |-> refs[i].UID]
            ELSE NoDeployment

\* addOrUpdateReplicaSet, the loop over the owner references from position
\* i: the Deployment of the new record, from the first reference of kind
\* Deployment whose Controller is set and true
RECURSIVE controllingDeployment(_, _)
controllingDeployment(refs, i) ==
  IF i > Len(refs) THEN NoDeployment
  ELSE IF refs[i].Kind = "Deployment" /\ refs[i].Controller = "true"
    THEN [Name |-> refs[i].Name, UID |-> refs[i].UID]
    ELSE controllingDeployment(refs, i + 1)

\* the write the holder of c.m has announced, made to the store
written(store) ==
  CASE pending.op = "put" -> MapSet(store, pending.key, pending.value)
    [] pending.op = "delete" -> MapDelete(store, pending.key)
    [] OTHER -> store

\* the namespace objects of the notifications
ApiNamespaces == { [Name |-> "kube-system", UID |-> "ku1"] }

\* the pods of the notifications: pod a with and without a replica set as
\* owner, and an ignored pod b owned by the replica set
WatchApiPods ==
  { [ApiPod("a", "ip1", 1, FALSE) EXCEPT !.OwnerReplicaSet = o] : o \in {"", "rs1"} }
  \cup { [ApiPod("b", "", 1, TRUE) EXCEPT !.OwnerReplicaSet = "rs1"] }

\* the write the holder of c.m has announced, made to c.Namespaces
writtenNamespaces ==
  CASE pending.op = "put" -> MapSet(Namespaces, pending.key, pending.value.UID)
    [] pending.op = "delete" -> MapDelete(Namespaces, pending.key)
    [] OTHER -> Namespaces

\* New gave the namespace informer something to watch: all namespaces for
\* their labels and annotations, kube-system for the cluster UID, and
\* nothing (NewNoOpInformer) otherwise
namespacesWatched == extractNamespaceLabelsAnnotations \/ settings.ClusterUID

\* the informer of the kind is running and calls the handlers
delivers(kind) ==
  /\ stream[kind] \in {"running", "synced"}
  /\ kind \notin terminated
  /\ kind = "Namespace" => namespacesWatched

\* handleReplicaSetAdd and handleReplicaSetUpdate, up to c.m.Lock() in
\* addOrUpdateReplicaSet: the record is built from the owner references
handleReplicaSetAdd(rs) ==
  /\ delivers("ReplicaSet")
  /\ mLock = "free"
  /\ nEvents < MaxEvents
  /\ nEvents' = nEvents + 1
  /\ mLock' = "ReplicaSet"
  /\ pending' = IF rs.UID # ""
                  THEN [op |-> "put", key |-> rs.UID,
                        value |-> controllingDeployment(rs.OwnerReferences, 1)]
                  ELSE NoWrite
  /\ UNCHANGED << Pods, deleteQueue, Associations, now, podPC, newPod, ids, dlPC,
                  toDelete, got, known, latest >>
  /\ UNCHANGED << startVars, ReplicaSets, Namespaces, ownerRS, access >>
  /\ UNCHANGED objectVars

\* handleReplicaSetDelete, up to c.m.Lock()
handleReplicaSetDelete(rs) ==
  /\ delivers("ReplicaSet")
  /\ mLock = "free"
  /\ rs.UID \in DOMAIN ReplicaSets
  /\ nEvents < MaxEvents
  /\ nEvents' = nEvents + 1
  /\ mLock' = "ReplicaSet"
  /\ pending' = [op |-> "delete", key |-> rs.UID, value |-> NoDeployment]
  /\ UNCHANGED << Pods, deleteQueue, Associations, now, podPC, newPod, ids, dlPC,
                  toDelete, got, known, latest >>
  /\ UNCHANGED << startVars, ReplicaSets, Namespaces, ownerRS, access >>
  /\ UNCHANGED objectVars

\* a write to c.ReplicaSets that also fills the DeploymentUID of the records
\* in the pod table
replicaSetWriteAndPods ==
  /\ mLock = "ReplicaSet"
  /\ ReplicaSets' = written(ReplicaSets)
  /\ Pods' = IF pending.op = "put"
               THEN [id \in DOMAIN Pods |->
                       [Pods[id] EXCEPT !.DeploymentUID = pending.value.UID]]
               ELSE Pods
  /\ mLock' = "free"
  /\ pending' = NoWrite
  /\ UNCHANGED << deleteQueue, Associations, now, podPC, newPod, ids, dlPC,
                  toDelete, got, nEvents, known, latest >>
  /\ UNCHANGED << startVars, Namespaces, ownerRS, access >>
  /\ UNCHANGED objectVars

\* the write to c.ReplicaSets and c.m.Unlock()
replicaSetWrite ==
  /\ mLock = "ReplicaSet"
  /\ ReplicaSets' = written(ReplicaSets)
  /\ mLock' = "free"
  /\ pending' = NoWrite
  /\ UNCHANGED << cacheVars, startVars, Namespaces, ownerRS, access >>
  /\ UNCHANGED objectVars

\* handleNamespaceAdd and handleNamespaceUpdate, up to c.m.Lock() in
\* addOrUpdateNamespace
handleNamespaceAdd(ns) ==
  /\ delivers("Namespace")
  /\ mLock = "free"
  /\ nEvents < MaxEvents
  /\ nEvents' = nEvents + 1
  /\ mLock' = "Namespace"
  /\ pending' = IF ns.Name # ""
                  THEN [op |-> "put", key |-> ns.Name,
                        value |-> [Name |-> ns.Name, UID |-> ns.UID]]
                  ELSE NoWrite
  /\ UNCHANGED << Pods, deleteQueue, Associations, now, podPC, newPod, ids, dlPC,
                  toDelete, got, known, latest >>
  /\ UNCHANGED << startVars, ReplicaSets, Namespaces, ownerRS, access >>
  /\ UNCHANGED objectVars

\* handleNamespaceDelete, up to c.m.Lock(); the informer sends Delete for a
\* namespace it has sent before
handleNamespaceDelete(ns) ==
  /\ delivers("Namespace")
  /\ mLock = "free"
  /\ ns.Name \in DOMAIN Namespaces
  /\ nEvents < MaxEvents
  /\ nEvents' = nEvents + 1
  /\ mLock' = "Namespace"
  /\ pending' = [op |-> "delete", key |-> ns.Name, value |-> NoWrite.value]
  /\ UNCHANGED << Pods, deleteQueue, Associations, now, podPC, newPod, ids, dlPC,
                  toDelete, got, known, latest >>
  /\ UNCHANGED << startVars, ReplicaSets, Namespaces, ownerRS, access >>
  /\ UNCHANGED objectVars

\* the write to c.Namespaces and c.m.Unlock()
namespaceWrite ==
  /\ mLock = "Namespace"
  /\ Namespaces' = writtenNamespaces
  /\ mLock' = "free"
  /\ pending' = NoWrite
  /\ UNCHANGED << cacheVars, startVars, ReplicaSets, ownerRS, access >>
  /\ UNCHANGED objectVars

\* getReplicaSet: the record and whether it was found, read under RLock
getReplicaSet(uid) ==
  IF uid \in DOMAIN ReplicaSets
    THEN [replicaset |-> [Deployment |-> ReplicaSets[uid]], ok |-> TRUE]
    ELSE [replicaset |-> [Deployment |-> NoDeployment], ok |-> FALSE]

\* tags[key] = value
withTag(pod, key, value) ==
  [pod EXCEPT !.Attributes = (key :> value) @@ pod.Attributes]

\* handlePodAdd and handlePodUpdate, up to the first read of a store in
\* podFromAPI: the fields of the new record that come from the pod alone
podNotification(pod) ==
  /\ delivers("Pod")
  /\ podPC = "idle"
  /\ nEvents < MaxEvents
  /\ nEvents' = nEvents + 1
  /\ known' = known \cup {pod.Name}
  /\ newPod' = podFromAPI(pod)
  /\ ownerRS' = pod.OwnerReplicaSet
  /\ podPC' = "podFromAPI"
  /\ access' = NoAccess
  /\ UNCHANGED << Pods, deleteQueue, Associations, now, ids, dlPC, toDelete, got, latest >>
  /\ UNCHANGED << startVars, ReplicaSets, Namespaces, mLock, pending >>
  /\ UNCHANGED objectVars

\* podFromAPI: newPod.DeploymentUID from getReplicaSet(getPodReplicaSetUID(pod));
\* an ignored pod gets no attributes
podFromAPIDeploymentUID ==
  /\ podPC = "podFromAPI"
  /\ mLock = "free"
  /\ LET r == getReplicaSet(ownerRS)
     IN newPod' = IF r.ok /\ r.replicaset.Deployment.UID # ""
                    THEN [newPod EXCEPT !.DeploymentUID = r.replicaset.Deployment.UID]
                    ELSE newPod
  /\ access' = [map |-> "ReplicaSets", lock |-> "read"]
  /\ podPC' = IF newPod.Ignore THEN "lock" ELSE "extractDeploymentName"
  /\ UNCHANGED << Pods, deleteQueue, Associations, now, ids, dlPC, toDelete, got,
                  nEvents, known, latest >>
  /\ UNCHANGED << startVars, ReplicaSets, Namespaces, mLock, pending, ownerRS >>
  /\ UNCHANGED objectVars

\* extractPodAttributes, the owner reference of kind ReplicaSet: the
\* deployment name from a call of getReplicaSet
extractDeploymentName ==
  /\ podPC = "extractDeploymentName"
  /\ IF ownerRS # "" /\ settings.DeploymentName
       THEN /\ mLock = "free"
            /\ LET r == getReplicaSet(ownerRS)
               IN newPod' = IF r.ok /\ r.replicaset.Deployment.Name # ""
                              THEN withTag(newPod, K8SDeploymentNameKey,
                                           r.replicaset.Deployment.Name)
                              ELSE newPod
            /\ access' = [map |-> "ReplicaSets", lock |-> "read"]
       ELSE newPod' = newPod /\ access' = NoAccess
  /\ podPC' = "extractDeploymentUID"
  /\ UNCHANGED << Pods, deleteQueue, Associations, now, ids, dlPC, toDelete, got,
                  nEvents, known, latest >>
  /\ UNCHANGED << startVars, ReplicaSets, Namespaces, mLock, pending, ownerRS >>
  /\ UNCHANGED objectVars

\* extractPodAttributes, the owner reference of kind ReplicaSet: the
\* deployment UID from another call of getReplicaSet
extractDeploymentUID ==
  /\ podPC = "extractDeploymentUID"
  /\ IF ownerRS # "" /\ settings.DeploymentUID
       THEN /\ mLock = "free"
            /\ LET r == getReplicaSet(ownerRS)
               IN newPod' = IF r.ok /\ r.replicaset.Deployment.Name # ""
                              THEN withTag(newPod, K8SDeploymentUIDKey,
                                           r.replicaset.Deployment.UID)
                              ELSE newPod
            /\ access' = [map |-> "ReplicaSets", lock |-> "read"]
       ELSE newPod' = newPod /\ access' = NoAccess
  /\ podPC' = "extractClusterUID"
  /\ UNCHANGED << Pods, deleteQueue, Associations, now, ids, dlPC, toDelete, got,
                  nEvents, known, latest >>
  /\ UNCHANGED << startVars, ReplicaSets, Namespaces, mLock, pending, ownerRS >>
  /\ UNCHANGED objectVars

\* an extractPodAttributes that sets the cluster UID tag whether or not
\* kube-system is in c.Namespaces
extractClusterUIDAlways ==
  /\ podPC = "extractClusterUID"
  /\ IF settings.ClusterUID
       THEN /\ \E seen \in { Namespaces }
                     \cup (IF mLock = "Namespace" THEN { writtenNamespaces } ELSE {}) :
                 newPod' = IF "kube-system" \in DOMAIN seen
                             THEN withTag(newPod, tagClusterUID, seen["kube-system"])
                             ELSE withTag(newPod, tagClusterUID, "")
            /\ access' = [map |-> "Namespaces", lock |-> "none"]
       ELSE newPod' = newPod /\ access' = NoAccess
  /\ podPC' = "lock"
  /\ UNCHANGED << Pods, deleteQueue, Associations, now, ids, dlPC, toDelete, got,
                  nEvents, known, latest >>
  /\ UNCHANGED << startVars, ReplicaSets, Namespaces, mLock, pending, ownerRS >>
  /\ UNCHANGED objectVars

\* extractPodAttributes, c.Rules.ClusterUID: c.Namespaces["kube-system"] is
\* read without a lock; while another goroutine is between c.m.Lock() and
\* c.m.Unlock() of a write to c.Namespaces the read may see the map before
\* or after the write
extractClusterUID ==
  /\ podPC = "extractClusterUID"
  /\ IF settings.ClusterUID
       THEN /\ \E seen \in { Namespaces }
                     \cup (IF mLock = "Namespace" THEN { writtenNamespaces } ELSE {}) :
                 newPod' = IF "kube-system" \in DOMAIN seen
                             THEN withTag(newPod, tagClusterUID, seen["kube-system"])
                             ELSE newPod
            /\ access' = [map |-> "Namespaces", lock |-> "none"]
       ELSE newPod' = newPod /\ access' = NoAccess
  /\ podPC' = "lock"
  /\ UNCHANGED << Pods, deleteQueue, Associations, now, ids, dlPC, toDelete, got,
                  nEvents, known, latest >>
  /\ UNCHANGED << startVars, ReplicaSets, Namespaces, mLock, pending, ownerRS >>
  /\ UNCHANGED objectVars

\* addOrUpdatePod: c.m.Lock()
addOrUpdatePodLock ==
  /\ podPC = "lock"
  /\ mLock = "free"
  /\ mLock' = "Pod"
  /\ podPC' = "put"
  /\ access' = NoAccess
  /\ UNCHANGED << Pods, deleteQueue, Associations, now, newPod, ids, dlPC, toDelete,
                  got, nEvents, known, latest >>
  /\ UNCHANGED << startVars, ReplicaSets, Namespaces, pending, ownerRS >>
  /\ UNCHANGED objectVars

\* addOrUpdatePod: the loop over the identifiers and the deferred
\* c.m.Unlock()
addOrUpdatePodPut ==
  /\ podPC = "put"
  /\ mLock = "Pod"
  /\ Pods' = putLoop(Pods, getIdentifiersFromAssoc(Associations, newPod), 1, newPod)
  /\ latest' = IF newPod.PodUID \in UIDs
                  THEN [latest EXCEPT ![newPod.PodUID] = Max(@, newPod.StartTime)]
                  ELSE latest
  /\ mLock' = "free"
  /\ access' = [map |-> "Pods", lock |-> "write"]
  /\ podPC' = "podTableSize"
  /\ UNCHANGED << deleteQueue, Associations, now, newPod, ids, dlPC, toDelete, got,
                  nEvents, known >>
  /\ UNCHANGED << startVars, ReplicaSets, Namespaces, pending, ownerRS >>
  /\ UNCHANGED objectVars

\* the handler after addOrUpdatePod: len(c.Pods) is read without a lock for
\* the table size gauge
recordPodTableSize ==
  /\ podPC = "podTableSize"
  /\ access' = [map |-> "Pods", lock |-> "none"]
  /\ podPC' = "idle"
  /\ UNCHANGED << Pods, deleteQueue, Associations, now, newPod, ids, dlPC, toDelete,
                  got, nEvents, known, latest >>
  /\ UNCHANGED << startVars, ReplicaSets, Namespaces, mLock, pending, ownerRS >>
  /\ UNCHANGED objectVars

\* New with the given settings has returned: no informer runs, the stores
\* are empty
InitWatch ==
  /\ Pods = << >>
  /\ deleteQueue = << >>
  /\ Associations \in AssocConfigs
  /\ now = 0
  /\ podPC = "idle"
  /\ newPod = NoPod
  /\ ids = << >>
  /\ dlPC = "wait"
  /\ toDelete = << >>
  /\ got = [id |-> ZeroIdentifier, pod |-> NoPod, ok |-> FALSE]
  /\ nEvents = 0
  /\ known = {}
  /\ latest = [u \in UIDs |-> NoTime]
  /\ settings \in WatchSettings
  /\ startPC = StartOrder[1]
  /\ launched = << >>
  /\ stream = [k \in Kinds |-> "idle"]
  /\ depTimer = "off"
  /\ mdTimer = "off"
  /\ startResult = "none"
  /\ ReplicaSets = << >>
  /\ Namespaces = << >>
  /\ mLock = "free"
  /\ pending = NoWrite
  /\ ownerRS = ""
  /\ access = NoAccess
  /\ Nodes = << >>
  /\ Deployments = << >>
  /\ StatefulSets = << >>
  /\ lookup = NoLookup
  /\ stopCh = "open"
  /\ terminated = {}
  /\ Constructed

\* Start, the informers and their handlers
NextWatch ==
  \/ \E kind \in Kinds : StartInformer(kind)
  \/ StartPodInformer
  \/ \E kind \in Kinds : InformerSynced(kind)
  \/ DependencyTimeout
  \/ runInformerWithDependencies
  \/ MetadataTimeout
  \/ StartReturns
  \/ \E rs \in ApiReplicaSets : handleReplicaSetAdd(rs)
  \/ \E rs \in ApiReplicaSets : handleReplicaSetDelete(rs)
  \/ replicaSetWrite
  \/ \E ns \in ApiNamespaces : handleNamespaceAdd(ns)
  \/ \E ns \in ApiNamespaces : handleNamespaceDelete(ns)
  \/ namespaceWrite
  \/ \E pod \in WatchApiPods : podNotification(pod)
  \/ podFromAPIDeploymentUID
  \/ extractDeploymentName
  \/ extractDeploymentUID
  \/ extractClusterUID
  \/ addOrUpdatePodLock
  \/ addOrUpdatePodPut
  \/ recordPodTableSize

SpecWatch == InitWatch /\ [][NextWatch]_vars

\* ------------------------------------------------------------------------
\* The handlers of the other kinds, their payloads and the getters
\* ------------------------------------------------------------------------

\* the node objects of the notifications: node n1 with two UIDs, node n2
ApiNodes ==
  { [Name |-> "n1", UID |-> "nu1"], [Name |-> "n1", UID |-> "nu2"],
    [Name |-> "n2", UID |-> "nu3"] }

\* the deployment objects of the notifications: one UID under two names
ApiDeployments == { [Name |-> "d1", UID |-> "du1"], [Name |-> "d2", UID |-> "du1"] }

\* the stateful set objects of the notifications
ApiStatefulSets == { [Name |-> "s1", UID |-> "su1"], [Name |-> "s2", UID |-> "su1"] }

\* the namespace objects of an informer of all namespaces
AllApiNamespaces ==
  ApiNamespaces \cup { [Name |-> "ns", UID |-> "nsu1"], [Name |-> "ns", UID |-> "nsu2"] }

\* the namespaces the namespace informer of New sees: all of them for the
\* labels and annotations, kube-system alone for the cluster UID
watchedNamespaces ==
  IF extractNamespaceLabelsAnnotations THEN AllApiNamespaces ELSE ApiNamespaces

\* the objects of a kind that a notification can carry
ObjectsOf(kind) ==
  CASE kind = "ReplicaSet" -> ApiReplicaSets
    [] kind = "Namespace" -> AllApiNamespaces
    [] kind = "Node" -> ApiNodes
    [] kind = "Deployment" -> ApiDeployments
    [] kind = "StatefulSet" -> ApiStatefulSets
    [] kind = "Pod" -> { ApiPod("a", "ip1", 1, FALSE) }

\* what a handler is called with: an object of some type, as it is or inside
\* a cache.DeletedFinalStateUnknown
Payload(type, object, final) == [type |-> type, final |-> final, obj |-> object]

\* the payloads a handler of the kind is called with: every object of the
\* kind and one object of another kind (a pod, and a node for the pod
\* handlers), each as it is and inside a DeletedFinalStateUnknown
Payloads(kind) ==
  { Payload(kind, object, final) : object \in ObjectsOf(kind), final \in BOOLEAN }
  \cup { Payload(type, CHOOSE object \in ObjectsOf(type) : TRUE, final) :
           type \in { IF kind = "Pod" THEN "Node" ELSE "Pod" }, final \in BOOLEAN }

Handlers == { "Add", "Update", "Delete" }

\* ignoreDeletedFinalStateUnknown: obj.Obj of a DeletedFinalStateUnknown,
\* and obj itself otherwise
ignoreDeletedFinalStateUnknown(obj) ==
  IF obj.final THEN [obj EXCEPT !.final = FALSE] ELSE obj

\* a type assertion that looks inside a DeletedFinalStateUnknown
assertTypeInside(obj, type) == obj.type = type

\* obj.(*T): the payload is a pointer to an object of the type of the kind
assertType(obj, type) == ~obj.final /\ obj.type = type

\* what a handler asserts the type of: the payload, on Delete after
\* ignoreDeletedFinalStateUnknown
asserted(handler, obj) ==
  IF handler = "Delete" THEN ignoreDeletedFinalStateUnknown(obj) ELSE obj

\* handleNodeAdd and handleNodeUpdate with a node: addOrUpdateNode
handleNodeAdd(node) ==
  /\ mLock = "free"
  /\ Nodes' = IF node.Name # "" THEN MapSet(Nodes, node.Name, node.UID) ELSE Nodes
  /\ nEvents' = nEvents + 1
  /\ UNCHANGED << Deployments, StatefulSets, lookup, stopCh, terminated, newVars >>
  /\ UNCHANGED << Pods, deleteQueue, Associations, now, podPC, newPod, ids, dlPC,
                  toDelete, got, known, latest >>
  /\ UNCHANGED << startVars, storeVars >>

\* handleNodeDelete with a node
handleNodeDelete(node) ==
  /\ mLock = "free"
  /\ Nodes' = IF node.Name \in DOMAIN Nodes THEN MapDelete(Nodes, node.Name) ELSE Nodes
  /\ nEvents' = nEvents + 1
  /\ UNCHANGED << Deployments, StatefulSets, lookup, stopCh, terminated, newVars >>
  /\ UNCHANGED << Pods, deleteQueue, Associations, now, podPC, newPod, ids, dlPC,
                  toDelete, got, known, latest >>
  /\ UNCHANGED << startVars, storeVars >>

\* an addOrUpdateDeployment that keeps the record a UID already has
handleDeploymentAddOnce(deployment) ==
  /\ mLock = "free"
  /\ Deployments' = IF deployment.UID # "" /\ deployment.UID \notin DOMAIN Deployments
                      THEN MapSet(Deployments, deployment.UID, deployment.Name)
                      ELSE Deployments
  /\ nEvents' = nEvents + 1
  /\ UNCHANGED << Nodes, StatefulSets, lookup, stopCh, terminated, newVars >>
  /\ UNCHANGED << Pods, deleteQueue, Associations, now, podPC, newPod, ids, dlPC,
                  toDelete, got, known, latest >>
  /\ UNCHANGED << startVars, storeVars >>

\* handleDeploymentAdd and handleDeploymentUpdate with a deployment:
\* addOrUpdateDeployment
handleDeploymentAdd(deployment) ==
  /\ mLock = "free"
  /\ Deployments' = IF deployment.UID # ""
                      THEN MapSet(Deployments, deployment.UID, deployment.Name)
                      ELSE Deployments
  /\ nEvents' = nEvents + 1
  /\ UNCHANGED << Nodes, StatefulSets, lookup, stopCh, terminated, newVars >>
  /\ UNCHANGED << Pods, deleteQueue, Associations, now, podPC, newPod, ids, dlPC,
                  toDelete, got, known, latest >>
  /\ UNCHANGED << startVars, storeVars >>

\* handleDeploymentDelete with a deployment
handleDeploymentDelete(deployment) ==
  /\ mLock = "free"
  /\ Deployments' = IF deployment.UID \in DOMAIN Deployments
                      THEN MapDelete(Deployments, deployment.UID)
                      ELSE Deployments
  /\ nEvents' = nEvents + 1
  /\ UNCHANGED << Nodes, StatefulSets, lookup, stopCh, terminated, newVars >>
  /\ UNCHANGED << Pods, deleteQueue, Associations, now, podPC, newPod, ids, dlPC,
                  toDelete, got, known, latest >>
  /\ UNCHANGED << startVars, storeVars >>

\* handleStatefulSetAdd and handleStatefulSetUpdate with a stateful set:
\* addOrUpdateStatefulSet
handleStatefulSetAdd(statefulset) ==
  /\ mLock = "free"
  /\ StatefulSets' = IF statefulset.UID # ""
                       THEN MapSet(StatefulSets, statefulset.UID, statefulset.Name)
                       ELSE StatefulSets
  /\ nEvents' = nEvents + 1
  /\ UNCHANGED << Nodes, Deployments, lookup, stopCh, terminated, newVars >>
  /\ UNCHANGED << Pods, deleteQueue, Associations, now, podPC, newPod, ids, dlPC,
                  toDelete, got, known, latest >>
  /\ UNCHANGED << startVars, storeVars >>

\* handleStatefulSetDelete with a stateful set
handleStatefulSetDelete(statefulset) ==
  /\ mLock = "free"
  /\ StatefulSets' = IF statefulset.UID \in DOMAIN StatefulSets
                       THEN MapDelete(StatefulSets, statefulset.UID)
                       ELSE StatefulSets
  /\ nEvents' = nEvents + 1
  /\ UNCHANGED << Nodes, Deployments, lookup, stopCh, terminated, newVars >>
  /\ UNCHANGED << Pods, deleteQueue, Associations, now, podPC, newPod, ids, dlPC,
                  toDelete, got, known, latest >>
  /\ UNCHANGED << startVars, storeVars >>

\* the else branch of a handler: the payload is logged, and the pod
\* handlers record the size of the pod table
logUnexpected(kind) ==
  /\ nEvents' = nEvents + 1
  /\ access' = IF kind = "Pod" THEN [map |-> "Pods", lock |-> "none"] ELSE access
  /\ UNCHANGED << Pods, deleteQueue, Associations, now, podPC, newPod, ids, dlPC,
                  toDelete, got, known, latest >>
  /\ UNCHANGED << startVars, ReplicaSets, Namespaces, mLock, pending, ownerRS >>
  /\ UNCHANGED objectVars

\* the handler of the kind with a payload of its type
handle(kind, handler, object) ==
  CASE kind = "ReplicaSet" ->
         IF handler = "Delete" THEN handleReplicaSetDelete(object)
                               ELSE handleReplicaSetAdd(object)
    [] kind = "Namespace" ->
         /\ object \in watchedNamespaces
         /\ IF handler = "Delete" THEN handleNamespaceDelete(object)
                                  ELSE handleNamespaceAdd(object)
    [] kind = "Node" ->
         IF handler = "Delete" THEN handleNodeDelete(object)
                               ELSE handleNodeAdd(object)
    [] kind = "Deployment" ->
         IF handler = "Delete" THEN handleDeploymentDelete(object)
                               ELSE handleDeploymentAdd(object)
    [] kind = "StatefulSet" ->
         IF handler = "Delete" THEN handleStatefulSetDelete(object)
                               ELSE handleStatefulSetAdd(object)
    [] kind = "Pod" ->
         /\ mLock = "free"
         /\ CASE handler = "Add" -> handlePodAdd(object)
              [] handler = "Update" -> handlePodUpdate(object)
              [] handler = "Delete" -> handlePodDelete(object)

\* the informer of the kind calls one of its three handlers with a
\* payload: the handler asserts the type and handles the object or logs
Notify(kind, handler, obj) ==
  /\ delivers(kind)
  /\ nEvents < MaxEvents
  /\ kind = "Pod" => podPC = "idle"
  /\ IF assertType(asserted(handler, obj), kind)
       THEN handle(kind, handler, obj.obj)
       ELSE logUnexpected(kind)

\* GetNamespace
GetNamespace(namespace) ==
  IF namespace \in DOMAIN Namespaces
    THEN [record |-> Namespaces[namespace], ok |-> TRUE]
    ELSE [record |-> "", ok |-> FALSE]

\* GetNode
GetNode(nodeName) ==
  IF nodeName \in DOMAIN Nodes
    THEN [record |-> Nodes[nodeName], ok |-> TRUE]
    ELSE [record |-> "", ok |-> FALSE]

\* GetDeployment
GetDeployment(deploymentUID) ==
  IF deploymentUID \in DOMAIN Deployments
    THEN [record |-> Deployments[deploymentUID], ok |-> TRUE]
    ELSE [record |-> "", ok |-> FALSE]

\* GetStatefulSet
GetStatefulSet(statefulSetUID) ==
  IF statefulSetUID \in DOMAIN StatefulSets
    THEN [record |-> StatefulSets[statefulSetUID], ok |-> TRUE]
    ELSE [record |-> "", ok |-> FALSE]

\* the keys the callers ask for
LookupKeys(kind) ==
  CASE kind = "Namespace" -> { "ns" }
    [] kind = "Node" -> { "n1" }
    [] kind = "Deployment" -> { "du1" }
    [] kind = "StatefulSet" -> { "su1" }

GetterKinds == { "Namespace", "Node", "Deployment", "StatefulSet" }

\* the getter of the kind
Getter(kind, key) ==
  CASE kind = "Namespace" -> GetNamespace(key)
    [] kind = "Node" -> GetNode(key)
    [] kind = "Deployment" -> GetDeployment(key)
    [] kind = "StatefulSet" -> GetStatefulSet(key)

\* a getter that waits until the informer of its kind has synced
getterCallWhenSynced(kind, key) ==
  /\ mLock = "free"
  /\ stream[kind] = "synced"
  /\ nEvents < MaxEvents
  /\ nEvents' = nEvents + 1
  /\ lookup' = [kind |-> kind, key |-> key, record |-> Getter(kind, key).record,
                found |-> Getter(kind, key).ok]
  /\ UNCHANGED << Nodes, Deployments, StatefulSets, stopCh, terminated, newVars >>
  /\ UNCHANGED << Pods, deleteQueue, Associations, now, podPC, newPod, ids, dlPC,
                  toDelete, got, known, latest >>
  /\ UNCHANGED << startVars, storeVars >>

\* a call of a getter by the processor: c.m.RLock(), the read of the map,
\* c.m.RUnlock() and the return
getterCall(kind, key) ==
  /\ mLock = "free"
  /\ nEvents < MaxEvents
  /\ nEvents' = nEvents + 1
  /\ lookup' = [kind |-> kind, key |-> key, record |-> Getter(kind, key).record,
                found |-> Getter(kind, key).ok]
  /\ UNCHANGED << Nodes, Deployments, StatefulSets, stopCh, terminated, newVars >>
  /\ UNCHANGED << Pods, deleteQueue, Associations, now, podPC, newPod, ids, dlPC,
                  toDelete, got, known, latest >>
  /\ UNCHANGED << startVars, storeVars >>

\* the settings New is given for the stores: namespace metadata and the
\* node UID; deployment metadata and the stateful set UID; stateful set
\* metadata and the deployment UID; node metadata and the cluster UID
StoreSettings ==
  { [PlainSettings EXCEPT !.NamespaceMetadata = TRUE, !.NodeUID = TRUE],
    [PlainSettings EXCEPT !.DeploymentMetadata = TRUE, !.StatefulSetUID = TRUE],
    [PlainSettings EXCEPT !.StatefulSetMetadata = TRUE, !.DeploymentUID = TRUE],
    [PlainSettings EXCEPT !.NodeMetadata = TRUE, !.ClusterUID = TRUE] }

\* New with the given settings has returned
InitStores ==
  /\ Pods = << >>
  /\ deleteQueue = << >>
  /\ Associations = << >>
  /\ now = 0
  /\ podPC = "idle"
  /\ newPod = NoPod
  /\ ids = << >>
  /\ dlPC = "wait"
  /\ toDelete = << >>
  /\ got = [id |-> ZeroIdentifier, pod |-> NoPod, ok |-> FALSE]
  /\ nEvents = 0
  /\ known = {}
  /\ latest = [u \in UIDs |-> NoTime]
  /\ settings \in StoreSettings
  /\ startPC = StartOrder[1]
  /\ launched = << >>
  /\ stream = [k \in Kinds |-> "idle"]
  /\ depTimer = "off"
  /\ mdTimer = "off"
  /\ startResult = "none"
  /\ ReplicaSets = << >>
  /\ Namespaces = << >>
  /\ mLock = "free"
  /\ pending = NoWrite
  /\ ownerRS = ""
  /\ access = NoAccess
  /\ Nodes = << >>
  /\ Deployments = << >>
  /\ StatefulSets = << >>
  /\ lookup = NoLookup
  /\ stopCh = "open"
  /\ terminated = {}
  /\ Constructed

\* Start, the informers with their handlers, and the callers of the getters
NextStores ==
  \/ \E kind \in Kinds : StartInformer(kind)
  \/ StartPodInformer
  \/ \E kind \in Kinds : InformerSynced(kind)
  \/ DependencyTimeout
  \/ runInformerWithDependencies
  \/ \E kind \in Kinds, handler \in Handlers :
       \E obj \in Payloads(kind) : Notify(kind, handler, obj)
  \/ replicaSetWrite
  \/ namespaceWrite
  \/ mLock = "free" /\ addOrUpdatePod
  \/ forgetPod

SpecStores == InitStores /\ [][NextStores]_vars

\* the settings New is given for the callers of the getters: the labels of
\* every kind
LookupSettings ==
  { [PlainSettings EXCEPT !.NamespaceMetadata = TRUE, !.NodeMetadata = TRUE,
                          !.DeploymentMetadata = TRUE, !.StatefulSetMetadata = TRUE] }

\* the object of each kind that the informers report to the handlers while
\* the getters are called
LookupObjects(kind) ==
  CASE kind = "Namespace" -> { [Name |-> "ns", UID |-> "nsu1"] }
    [] kind = "Node" -> { [Name |-> "n1", UID |-> "nu1"] }
    [] kind = "Deployment" -> { [Name |-> "d1", UID |-> "du1"] }
    [] kind = "StatefulSet" -> { [Name |-> "s1", UID |-> "su1"] }
    [] kind = "Pod" -> { ApiPod("a", "ip1", 1, FALSE) }

\* the identifiers GetPod is called with
LookupIdentifiers == { uidIdentifier(UIDOf("a")) }

\* New with the given settings has returned
InitLookup ==
  /\ Pods = << >>
  /\ deleteQueue = << >>
  /\ Associations = << >>
  /\ now = 0
  /\ podPC = "idle"
  /\ newPod = NoPod
  /\ ids = << >>
  /\ dlPC = "wait"
  /\ toDelete = << >>
  /\ got = [id |-> ZeroIdentifier, pod |-> NoPod, ok |-> FALSE]
  /\ nEvents = 0
  /\ known = {}
  /\ latest = [u \in UIDs |-> NoTime]
  /\ settings \in LookupSettings
  /\ startPC = StartOrder[1]
  /\ launched = << >>
  /\ stream = [k \in Kinds |-> "idle"]
  /\ depTimer = "off"
  /\ mdTimer = "off"
  /\ startResult = "none"
  /\ ReplicaSets = << >>
  /\ Namespaces = << >>
  /\ mLock = "free"
  /\ pending = NoWrite
  /\ ownerRS = ""
  /\ access = NoAccess
  /\ Nodes = << >>
  /\ Deployments = << >>
  /\ StatefulSets = << >>
  /\ lookup = NoLookup
  /\ stopCh = "open"
  /\ terminated = {}
  /\ Constructed

\* a call of GetPod by the processor, with c.m.RLock()
GetPodLocked(id) == mLock = "free" /\ GetPodCall(id)

\* Start, the informers with their Add handlers, and the callers of the
\* getters
NextLookup ==
  \/ \E kind \in Kinds : StartInformer(kind)
  \/ StartPodInformer
  \/ \E kind \in Kinds : InformerSynced(kind)
  \/ DependencyTimeout
  \/ runInformerWithDependencies
  \/ \E kind \in GetterKinds \cup {"Pod"} :
       \E object \in LookupObjects(kind) : Notify(kind, "Add", Payload(kind, object, FALSE))
  \/ namespaceWrite
  \/ mLock = "free" /\ addOrUpdatePod
  \/ \E kind \in GetterKinds : \E key \in LookupKeys(kind) : getterCall(kind, key)
  \/ \E id \in LookupIdentifiers : GetPodLocked(id)

SpecLookup == InitLookup /\ [][NextLookup]_vars

\* ------------------------------------------------------------------------
\* Stop
\* ------------------------------------------------------------------------

\* Stop: close(c.stopCh)
Stop ==
  /\ stopCh = "open"
  /\ stopCh' = "closed"
  /\ UNCHANGED << Nodes, Deployments, StatefulSets, lookup, terminated, newVars >>
  /\ UNCHANGED << cacheVars, startVars, storeVars >>

\* the informer goroutine of the kind is inside a call of a handler
inHandler(kind) ==
  CASE kind = "Pod" -> podPC # "idle"
    [] kind = "ReplicaSet" -> mLock = "ReplicaSet"
    [] kind = "Namespace" -> mLock = "Namespace"
    [] OTHER -> FALSE

\* an informer that returns from Run in the middle of a handler call
InformerStopsAtOnce(kind) ==
  /\ stopCh = "closed"
  /\ stream[kind] \in {"running", "synced"}
  /\ kind \notin terminated
  /\ terminated' = terminated \cup {kind}
  /\ UNCHANGED << Nodes, Deployments, StatefulSets, lookup, stopCh, newVars >>
  /\ UNCHANGED << cacheVars, startVars, storeVars >>

\* informer.Run(c.stopCh) returns: the informer sees the closed channel
\* between two calls of its handlers
InformerStops(kind) ==
  /\ stopCh = "closed"
  /\ stream[kind] \in {"running", "synced"}
  /\ kind \notin terminated
  /\ ~inHandler(kind)
  /\ terminated' = terminated \cup {kind}
  /\ UNCHANGED << Nodes, Deployments, StatefulSets, lookup, stopCh, newVars >>
  /\ UNCHANGED << cacheVars, startVars, storeVars >>

\* deleteLoop: the select takes case <-c.stopCh and the goroutine returns
deleteLoopStops ==
  /\ stopCh = "closed"
  /\ dlPC = "wait"
  /\ "deleteLoop" \notin terminated
  /\ terminated' = terminated \cup {"deleteLoop"}
  /\ UNCHANGED << Nodes, Deployments, StatefulSets, lookup, stopCh, newVars >>
  /\ UNCHANGED << cacheVars, startVars, storeVars >>

\* the settings New is given for Stop: the deployment name, so that the pod
\* informer depends on the replica set informer
StopSettings == { [PlainSettings EXCEPT !.DeploymentName = TRUE] }

\* the notifications of the informers while Stop is called: pod a of
\* replica set rs1, and rs1 of deployment d1
StopApiPods == { [ApiPod("a", "ip1", 1, FALSE) EXCEPT !.OwnerReplicaSet = "rs1"] }

StopApiReplicaSets ==
  { [UID |-> "rs1",
     OwnerReferences |-> << OwnerReference("Deployment", "true", "d1", "du1") >>] }

\* New with the given settings has returned
InitStop ==
  /\ Pods = << >>
  /\ deleteQueue = << >>
  /\ Associations = << >>
  /\ now = 0
  /\ podPC = "idle"
  /\ newPod = NoPod
  /\ ids = << >>
  /\ dlPC = "wait"
  /\ toDelete = << >>
  /\ got = [id |-> ZeroIdentifier, pod |-> NoPod, ok |-> FALSE]
  /\ nEvents = 0
  /\ known = {}
  /\ latest = [u \in UIDs |-> NoTime]
  /\ settings \in StopSettings
  /\ startPC = StartOrder[1]
  /\ launched = << >>
  /\ stream = [k \in Kinds |-> "idle"]
  /\ depTimer = "off"
  /\ mdTimer = "off"
  /\ startResult = "none"
  /\ ReplicaSets = << >>
  /\ Namespaces = << >>
  /\ mLock = "free"
  /\ pending = NoWrite
  /\ ownerRS = ""
  /\ access = NoAccess
  /\ Nodes = << >>
  /\ Deployments = << >>
  /\ StatefulSets = << >>
  /\ lookup = NoLookup
  /\ stopCh = "open"
  /\ terminated = {}
  /\ Constructed

\* the steps of Start
StartStep ==
  \/ \E kind \in Kinds : StartInformer(kind)
  \/ StartPodInformer

\* the steps of the pod handlers after the first
PodHandlerStep ==
  \/ podFromAPIDeploymentUID
  \/ extractDeploymentName
  \/ extractDeploymentUID
  \/ extractClusterUID
  \/ addOrUpdatePodLock
  \/ addOrUpdatePodPut
  \/ recordPodTableSize
  \/ mLock = "free" /\ forgetPod

\* a tick of deleteLoop: case <-time.After(interval) of the select
deleteLoopTick ==
  /\ "deleteLoop" \notin terminated
  /\ \/ deleteLoopScan
     \/ mLock = "free" /\ deleteLoopApply

\* Start, the informers with their handlers, deleteLoop and Stop
NextStop ==
  \/ StartStep
  \/ \E kind \in Kinds : InformerSynced(kind)
  \/ DependencyTimeout
  \/ runInformerWithDependencies
  \/ \E rs \in StopApiReplicaSets : handleReplicaSetAdd(rs)
  \/ replicaSetWrite
  \/ \E pod \in StopApiPods : podNotification(pod)
  \/ \E pod \in StopApiPods : delivers("Pod") /\ mLock = "free" /\ handlePodDelete(pod)
  \/ PodHandlerStep
  \/ deleteLoopTick
  \/ Stop
  \/ \E kind \in Kinds : InformerStops(kind)
  \/ deleteLoopStops

\* Start and every goroutine that can take a step takes one in the end; the
\* select of deleteLoop takes the closed c.stopCh in the end
FairStop ==
  /\ WF_vars(StartStep)
  /\ WF_vars(DependencyTimeout)
  /\ WF_vars(runInformerWithDependencies)
  /\ WF_vars(replicaSetWrite)
  /\ WF_vars(PodHandlerStep)
  /\ WF_vars(deleteLoopTick)
  /\ \A kind \in Kinds : WF_vars(InformerStops(kind))
  /\ SF_vars(deleteLoopStops)

SpecStop == InitStop /\ [][NextStop]_vars /\ FairStop

\* ------------------------------------------------------------------------
\* Properties
\* ------------------------------------------------------------------------

\* start time t is strictly later than start time u (both are set)
StrictlyLater(t, u) == t # NoTime /\ u # NoTime /\ t > u

\* the identifiers of a record, as a set
IdentifierSet(pod) ==
  { getIdentifiersFromAssoc(Associations, pod)[k] :
      k \in 1..Len(getIdentifiersFromAssoc(Associations, pod)) }

\* C1: an entry whose record has a strictly later start time than the
\* incoming pod is left unchanged by addOrUpdatePod, and no step at all
\* replaces the record under an identifier by one with a strictly older
\* start time.
C1_NeverReplacedByOlder ==
  [][ /\ \A id \in DOMAIN Pods :
           (podPC = "addOrUpdatePod" /\ podPC' = "idle"
              /\ StrictlyLater(Pods[id].StartTime, newPod.StartTime))
             => (id \in DOMAIN Pods' /\ Pods'[id] = Pods[id])
      /\ \A id \in DOMAIN Pods :
           (id \in DOMAIN Pods' /\ Pods'[id] # Pods[id])
             => ~StrictlyLater(Pods[id].StartTime, Pods'[id].StartTime) ]_vars

\* C1 witness: addOrUpdatePod has returned and left, under an identifier of
\* the pod it handled, the record of another pod that started later.
C1_Witness ==
  /\ podPC = "idle"
  /\ newPod # NoPod
  /\ \E id \in IdentifierSet(newPod) :
       /\ id \in DOMAIN Pods
       /\ Pods[id] # newPod
       /\ StrictlyLater(Pods[id].StartTime, newPod.StartTime)

\* the steps of the two goroutines, told by the places they move between
AddOrUpdateStep == podPC = "addOrUpdatePod" /\ podPC' = "idle"

ForgetStep == (podPC = "forgetPod" \/ podPC' = "forgetPod") /\ ids' # ids

ScanStep == dlPC = "wait" /\ dlPC' = "apply"

ApplyStep == dlPC = "apply" /\ dlPC' = "wait"

\* the requests of a sequence, as a set
Requests(q) == { q[k] : k \in 1..Len(q) }

\* the requests not yet applied: those queued and, between the two parts of
\* a tick, those cut from the queue
Pending == Requests(deleteQueue) \cup (IF dlPC = "apply" THEN Requests(toDelete) ELSE {})

\* C2: when deleteLoop applies the requests it dequeued, the entry under an
\* identifier is removed if and only if one of these requests names the
\* identifier and the name of the record stored under it; every other entry,
\* also one whose record has another name than the request, stays as it is.
C2_EvictionChecksName ==
  [][ ApplyStep =>
        /\ DOMAIN Pods' \subseteq DOMAIN Pods
        /\ \A id \in DOMAIN Pods :
             IF \E d \in Requests(toDelete) : d.id = id /\ d.podName = Pods[id].Name
               THEN id \notin DOMAIN Pods'
               ELSE id \in DOMAIN Pods' /\ Pods'[id] = Pods[id] ]_vars

\* C2 witness: a tick has applied its requests; one of them names an
\* identifier that now holds a pod of another name, and another identifier
\* it names is gone.
C2_Witness ==
  /\ dlPC = "wait"
  /\ \E d \in Requests(toDelete) : d.id \in DOMAIN Pods /\ Pods[d.id].Name # d.podName
  /\ \E d \in Requests(toDelete) : d.id \notin DOMAIN Pods

\* C3: as long as the record of a pod B is stored under an identifier and no
\* request naming B for that identifier is pending, the identifier keeps
\* mapping to that record through every step of deleteLoop, of the clock and
\* of forgetPod, whatever requests for pods of other names are pending; only
\* addOrUpdatePod may replace it, and nothing removes it.
C3_ReassignedIdentifierSurvives ==
  [][ \A id \in DOMAIN Pods :
        (~\E d \in Pending : d.id = id /\ d.podName = Pods[id].Name)
          => /\ id \in DOMAIN Pods'
             /\ (~AddOrUpdateStep => Pods'[id] = Pods[id]) ]_vars

\* C3 witness: pod a was deleted and evicted (its UID is gone from the
\* table) by a tick whose requests also named the connection identifier,
\* which pod b had taken over in the meantime and still holds.
C3_Witness ==
  /\ dlPC = "wait"
  /\ uidIdentifier("u1") \notin DOMAIN Pods
  /\ \E d \in Requests(toDelete) :
       /\ d.podName = "a"
       /\ d.id = PodIdentifierOf(PodIdentifierAttributeFromConnection("ip1"))
       /\ d.id \in DOMAIN Pods
       /\ Pods[d.id].Name = "b"

\* C6: the scan of a tick at time now cuts from the head of the queue exactly
\* the longest prefix of requests whose grace period is over (ts +
\* gracePeriod is not after now): these become the requests to apply, in
\* order, the others stay queued in their order, and the first that stays
\* is still within its grace period.  No other step takes a request out of
\* the queue: any other change of the queue appends one request.
C6_ScanCutsExpiredPrefix ==
  [][ /\ ScanStep =>
           /\ toDelete' \o deleteQueue' = deleteQueue
           /\ \A k \in 1..Len(toDelete') : toDelete'[k].ts + gracePeriod <= now
           /\ deleteQueue' # << >> => deleteQueue'[1].ts + gracePeriod > now
      /\ ~ScanStep =>
           /\ toDelete' = toDelete
           /\ \/ deleteQueue' = deleteQueue
              \/ /\ Len(deleteQueue') = Len(deleteQueue) + 1
                 /\ SubSeq(deleteQueue', 1, Len(deleteQueue)) = deleteQueue ]_vars

\* C6 witness: a scan has cut expired requests and left a younger one queued.
C6_Witness ==
  /\ dlPC = "apply"
  /\ toDelete # << >>
  /\ deleteQueue # << >>
  /\ deleteQueue[1].ts + gracePeriod > now

\* C7: an entry leaves the pod table only in the step in which deleteLoop
\* applies its requests.  The steps of handlePodDelete and forgetPod leave
\* the table as it is and at most append to the delete queue; the steps of
\* the Add and Update handlers keep every identifier that was in the table.
C7_OnlyEvictionRemoves ==
  [][ /\ (DOMAIN Pods \subseteq DOMAIN Pods') \/ ApplyStep
      /\ ForgetStep =>
           /\ Pods' = Pods
           /\ \/ deleteQueue' = deleteQueue
              \/ /\ Len(deleteQueue') = Len(deleteQueue) + 1
                 /\ SubSeq(deleteQueue', 1, Len(deleteQueue)) = deleteQueue
      /\ (AddOrUpdateStep \/ (podPC = "idle" /\ podPC' = "addOrUpdatePod")) =>
           /\ DOMAIN Pods \subseteq DOMAIN Pods'
           /\ deleteQueue' = deleteQueue ]_vars

\* C7 witness: forgetPod has run to its end for a pod that is still in the
\* table under every identifier it was queued for.
C7_Witness ==
  /\ podPC = "idle"
  /\ deleteQueue # << >>
  /\ dlPC = "wait"
  /\ toDelete = << >>
  /\ \A d \in Requests(deleteQueue) : d.id \in DOMAIN Pods /\ Pods[d.id].Name = d.podName

\* a pass of the loop of forgetPod over one identifier
ForgetPass == podPC = "forgetPod" /\ ids' = Tail(ids)

\* the request d is within its grace period at time t
Young(d, t) == t < d.ts + gracePeriod

\* C4: a pod deleted at time T stays in the table, and returned by GetPod,
\* under its queued identifiers before T + gracePeriod: no step of the
\* eviction removes an entry for which a request with the entry's name is
\* queued and still within its grace period.
C4_RetainedDuringGrace ==
  [][ ApplyStep =>
        \A id \in DOMAIN Pods \ DOMAIN Pods' :
          ~\E d \in Requests(deleteQueue) :
              d.id = id /\ d.podName = Pods[id].Name /\ Young(d, now) ]_vars

\* C4: the state after an eviction that removed the entry of a pod although
\* the request of the pod's last Delete is still within its grace period:
\* an older request for the same identifier and name was applied.
C4_EvictedEarly ==
  /\ dlPC = "wait"
  /\ toDelete # << >>
  /\ \E d \in Requests(deleteQueue) : \E e \in Requests(toDelete) :
       /\ d.id = e.id
       /\ d.podName = e.podName
       /\ Young(d, now)
       /\ d.id \notin DOMAIN Pods

\* C5: each pass of forgetPod over an identifier of the deleted pod appends
\* the request (identifier, pod name, now) exactly when the table has an
\* entry under the identifier with the name of the deleted pod, an entry
\* flagged Ignore included; otherwise the queue is left as it is.
C5_QueuesEveryEntryOfThePod ==
  [][ ForgetPass =>
        LET id == Head(ids)
        IN IF id \in DOMAIN Pods /\ Pods[id].Name = newPod.Name
             THEN deleteQueue' = Append(deleteQueue, [id |-> id, podName |-> newPod.Name, ts |-> now])
             ELSE deleteQueue' = deleteQueue ]_vars

\* C5: the state after forgetPod has returned for an ignored pod: its entry
\* is in the table and nothing is queued for it.
C5_IgnoredNotQueued ==
  /\ podPC = "idle"
  /\ newPod = NoPod
  /\ \E id \in DOMAIN Pods :
       /\ Pods[id].Ignore
       /\ Pods[id].Name \notin known
       /\ ~\E d \in Requests(deleteQueue) \cup Requests(toDelete) : d.id = id

\* C8: when addOrUpdatePod returns, the entry under each identifier of the
\* new record is the new record, unless the record stored there before had
\* a strictly later start time, and then the entry is as before; the test is
\* made for each identifier by itself, an equal start time overwrites, and
\* entries under other identifiers are as before.
C8_PutPerIdentifier ==
  [][ AddOrUpdateStep =>
        /\ \A id \in IdentifierSet(newPod) :
             /\ id \in DOMAIN Pods'
             /\ Pods'[id] =
                  IF id \in DOMAIN Pods /\ StrictlyLater(Pods[id].StartTime, newPod.StartTime)
                    THEN Pods[id] ELSE newPod
        /\ \A id \in DOMAIN Pods' \ IdentifierSet(newPod) :
             id \in DOMAIN Pods /\ Pods'[id] = Pods[id] ]_vars

\* C8 witness: addOrUpdatePod has returned after writing the new record under
\* one of its identifiers, over a record of another pod with the same start
\* time under a second one, and skipping a third that holds a strictly later
\* record.
C8_Witness ==
  /\ podPC = "idle"
  /\ newPod # NoPod
  /\ \E id \in IdentifierSet(newPod) : Pods[id] = newPod
  /\ \E id \in IdentifierSet(newPod) :
       Pods[id] # newPod /\ StrictlyLater(Pods[id].StartTime, newPod.StartTime)

\* C9: as long as the entry of a pod UID has not been evicted, the record
\* stored under the UID's identifier carries the latest start time seen in
\* the Add and Update events of that UID.
C9_ConvergesToLatest ==
  \A u \in UIDs :
    latest[u] # NoTime =>
      /\ uidIdentifier(u) \in DOMAIN Pods
      /\ Pods[uidIdentifier(u)].StartTime = latest[u]

\* C9: the state after an event without start time has replaced the record
\* of its UID that carried a start time.
C9_StartTimeLost ==
  /\ podPC = "idle"
  /\ newPod # NoPod
  /\ newPod.StartTime = NoTime
  /\ latest[newPod.PodUID] # NoTime
  /\ uidIdentifier(newPod.PodUID) \in DOMAIN Pods
  /\ Pods[uidIdentifier(newPod.PodUID)] = newPod

\* a call of GetPod has returned
GetPodStep == nEvents' # nEvents /\ podPC' = podPC /\ known' = known

\* C10: a call of GetPod leaves the table as it is and returns, for an
\* identifier with a record flagged Ignore, no record and not found; for an
\* identifier with a record not flagged Ignore, that record and found; for an
\* identifier without entry, no record and not found.  What it returns as
\* found is never flagged Ignore.
C10_GetPodHidesIgnored ==
  [][ GetPodStep =>
        /\ Pods' = Pods
        /\ got'.ok = (got'.id \in DOMAIN Pods /\ ~Pods[got'.id].Ignore)
        /\ got'.pod = IF got'.ok THEN Pods[got'.id] ELSE NoPod
        /\ got'.ok => ~got'.pod.Ignore ]_vars

\* C10 witness: GetPod was called with an identifier whose entry is flagged
\* Ignore and returned not found; the entry is in the table.
C10_Witness ==
  /\ got.id \in DOMAIN Pods
  /\ Pods[got.id].Ignore
  /\ ~got.ok
  /\ got.pod = NoPod

\* the fallback identifiers of a record, as a set
FallbackSet(pod) == { fallbackIdentifiers(pod)[k] : k \in 1..Len(fallbackIdentifiers(pod)) }

\* C11: when addOrUpdatePod returns for a pod that is not ignored and the
\* table held no entry under any identifier of the pod, GetPod on each
\* identifier derived for the pod, from the rules and as fallback, returns
\* found and the record just built.
C11_AllIdentifiersSameRecord ==
  [][ (AddOrUpdateStep /\ ~newPod.Ignore /\ IdentifierSet(newPod) \cap DOMAIN Pods = {}) =>
        \A id \in IdentifierSet(newPod) :
          (GetPod(id))' = [pod |-> newPod, ok |-> TRUE] ]_vars

\* C11 witness: the first pod of the behaviour was added; it is stored under
\* at least three identifiers, one of them derived from a rule, and GetPod
\* returns the record under each.
C11_Witness ==
  /\ podPC = "idle"
  /\ newPod # NoPod
  /\ ~newPod.Ignore
  /\ known = {newPod.Name}
  /\ Cardinality(IdentifierSet(newPod)) >= 3
  /\ IdentifierSet(newPod) \ FallbackSet(newPod) # {}
  /\ \A id \in IdentifierSet(newPod) : GetPod(id) = [pod |-> newPod, ok |-> TRUE]

\* the identifier has a component taken from the connection
HasConnectionComponent(id) ==
  \E k \in 1..PodIdentifierMaxLength : id[k].Source.From = ConnectionSource

\* a rule of the configuration has a connection source
ConnectionConfigured ==
  \E r \in 1..Len(Associations) :
    \E k \in 1..Len(Associations[r].Sources) :
      Associations[r].Sources[k].From = ConnectionSource

\* C12: for a pod on the host network, whatever the association rules, no
\* identifier getIdentifiersFromAssoc derives has a component from the
\* connection, and no entry of the table whose record is on the host network
\* is stored under such an identifier.
C12_HostNetworkNoConnectionIdentifier ==
  /\ (newPod # NoPod /\ newPod.HostNetwork) =>
       \A id \in IdentifierSet(newPod) : ~HasConnectionComponent(id)
  /\ \A id \in DOMAIN Pods :
       Pods[id].HostNetwork => ~HasConnectionComponent(id)

\* C12 witness: a host-network pod with an address was stored under a
\* configuration with a connection rule.
C12_Witness ==
  /\ podPC = "idle"
  /\ newPod.HostNetwork
  /\ newPod.Address # ""
  /\ ConnectionConfigured
  /\ IdentifierSet(newPod) # {}
  /\ \A id \in IdentifierSet(newPod) : id \in DOMAIN Pods /\ Pods[id] = newPod

\* the source is the container ID of the resource
IsContainerIDSource(source) ==
  source.From = ResourceSource /\ source.Name = ContainerIDKey

\* the rules of the configuration that have a container-ID source
ContainerIDRules ==
  { Associations[r] : r \in { q \in 1..Len(Associations) :
      \E k \in 1..Len(Associations[q].Sources) :
        IsContainerIDSource(Associations[q].Sources[k]) } }

\* the position the container IDs are written to: that of the last
\* container-ID source of the rule
ContainerIDPosition(assoc) ==
  CHOOSE k \in 1..Len(assoc.Sources) :
    /\ IsContainerIDSource(assoc.Sources[k])
    /\ \A j \in (k + 1)..Len(assoc.Sources) : ~IsContainerIDSource(assoc.Sources[j])

\* the rule is dropped for the record: a connection source without usable
\* address, or a resource source without value that no container-ID source
\* precedes
RuleDropped(assoc, pod) ==
  \E k \in 1..Len(assoc.Sources) :
    LET source == assoc.Sources[k]
    IN \/ source.From = ConnectionSource /\ (pod.Address = "" \/ pod.HostNetwork)
       \/ /\ source.From = ResourceSource
          /\ resourceAttr(pod, source.Name) = ""
          /\ \A j \in 1..k : ~IsContainerIDSource(assoc.Sources[j])

\* the identifiers differ at most in position pos
DifferOnlyAt(idSeq, pos) ==
  \A j, k \in 1..Len(idSeq) :
    \A p \in 1..PodIdentifierMaxLength : p # pos => idSeq[j][p] = idSeq[k][p]

\* the payloads the record in newPod can have been built from
PayloadsOfNewPod == { p \in IdApiPods : podFromAPI(p) = newPod }

\* C13 as stated: a rule with a container-ID source contributes, for a pod
\* with N containers, exactly N identifiers that differ only in the
\* container-ID position.
C13_OnePerContainer ==
  \A p \in PayloadsOfNewPod : \A assoc \in ContainerIDRules :
    /\ Len(assocIdentifiers(newPod, assoc)) = Len(p.ContainerStatuses)
    /\ DifferOnlyAt(assocIdentifiers(newPod, assoc), ContainerIDPosition(assoc))

\* C13, amended: a rule with a container-ID source contributes no
\* identifier when it is dropped because another of its sources has no
\* value, and otherwise exactly one identifier per distinct container ID
\* recorded for the pod (containers without ID share the empty ID); these
\* carry the recorded container IDs in the container-ID position and are
\* equal in every other position.
C13_OnePerRecordedContainerID ==
  newPod # NoPod =>
    \A assoc \in ContainerIDRules :
      LET out == assocIdentifiers(newPod, assoc)
          pos == ContainerIDPosition(assoc)
      IN IF RuleDropped(assoc, newPod)
           THEN out = << >>
           ELSE /\ Len(out) = Cardinality(newPod.Containers)
                /\ { out[k][pos].Value : k \in 1..Len(out) } = newPod.Containers
                /\ \A k \in 1..Len(out) : IsContainerIDSource(out[k][pos].Source)
                /\ DifferOnlyAt(out, pos)

\* C13 witness: a pod with two container IDs was stored under a rule with a
\* container-ID source and a second source; the table has its two
\* identifiers of that rule.
C13_Witness ==
  /\ podPC = "idle"
  /\ Cardinality(newPod.Containers) = 2
  /\ \E assoc \in ContainerIDRules :
       /\ Len(assoc.Sources) = 2
       /\ ~RuleDropped(assoc, newPod)
       /\ Len(assocIdentifiers(newPod, assoc)) = 2
       /\ \A k \in 1..2 :
            /\ assocIdentifiers(newPod, assoc)[k] \in DOMAIN Pods
            /\ Pods[assocIdentifiers(newPod, assoc)[k]] = newPod

\* a source of the rule cannot be resolved for the record: a connection
\* source without usable address, or a resource source other than the
\* container ID without value
Unresolved(assoc, pod) ==
  \E k \in 1..Len(assoc.Sources) :
    LET source == assoc.Sources[k]
    IN \/ source.From = ConnectionSource /\ (pod.Address = "" \/ pod.HostNetwork)
       \/ /\ source.From = ResourceSource
          /\ ~IsContainerIDSource(source)
          /\ resourceAttr(pod, source.Name) = ""

\* C14: a rule with a source that cannot be resolved contributes no
\* identifier, wherever the source stands in the rule, also after a
\* container-ID source; and no identifier derived from a rule has an empty
\* value in the position of a configured source other than the container ID.
C14_UnresolvedRuleContributesNothing ==
  newPod # NoPod =>
    \A r \in 1..Len(Associations) :
      LET assoc == Associations[r]
          out == assocIdentifiers(newPod, assoc)
      IN /\ Unresolved(assoc, newPod) => out = << >>
         /\ \A j \in 1..Len(out) : \A k \in 1..Len(assoc.Sources) :
              ~IsContainerIDSource(assoc.Sources[k]) => out[j][k].Value # ""

\* C14: the state after a pod without host name was stored under a rule of
\* container ID and host name: a key of the table has the host name source
\* with an empty value.
C14_EmptyComponentStored ==
  /\ podPC = "idle"
  /\ \E id \in DOMAIN Pods : \E k \in 1..PodIdentifierMaxLength :
       /\ Pods[id] = newPod
       /\ id[k].Source = FromResource(tagHostName)
       /\ id[k].Value = ""

\* the part of C14 the code keeps: a rule with a connection source that has
\* no usable address, or with an empty resource source that no container-ID
\* source precedes, contributes nothing
RuleDroppedContributesNothing ==
  newPod # NoPod =>
    \A r \in 1..Len(Associations) :
      RuleDropped(Associations[r], newPod) =>
        assocIdentifiers(newPod, Associations[r]) = << >>

\* an identifier with one component, from the given source and value
Single(from, name, value) ==
  [ZeroIdentifier EXCEPT ![1] = [Source |-> [From |-> from, Name |-> name], Value |-> value]]

\* the identifier by pod UID, when the record has a UID
ByUID(pod) ==
  IF pod.PodUID # "" THEN << Single(ResourceSource, K8SPodUIDKey, pod.PodUID) >> ELSE << >>

\* C15 as stated: what getIdentifiersFromAssoc returns is the identifiers of
\* the rules followed by the identifier by pod UID when the UID is not
\* empty and by one identifier by address when the address is not empty and
\* the pod is not on the host network, and nothing else.
C15_TwoFallbackIdentifiers ==
  newPod # NoPod =>
    getIdentifiersFromAssoc(Associations, newPod) =
      assocsLoop(newPod, Associations, 1)
      \o ByUID(newPod)
      \o (IF newPod.Address # "" /\ ~newPod.HostNetwork
            THEN << Single(ConnectionSource, "", newPod.Address) >>
            ELSE << >>)

\* C15, amended: what getIdentifiersFromAssoc returns is the identifiers of
\* the rules followed by the identifier by pod UID when the UID is not
\* empty and, when the address is not empty and the pod is not on the host
\* network, by two identifiers by address, one from the connection and one
\* from the resource attribute k8s.pod.ip, and nothing else; the appended
\* identifiers do not depend on the rules.
C15_ThreeFallbackIdentifiers ==
  newPod # NoPod =>
    getIdentifiersFromAssoc(Associations, newPod) =
      assocsLoop(newPod, Associations, 1)
      \o ByUID(newPod)
      \o (IF newPod.Address # "" /\ ~newPod.HostNetwork
            THEN << Single(ConnectionSource, "", newPod.Address),
                    Single(ResourceSource, K8sIPLabelName, newPod.Address) >>
            ELSE << >>)

\* C15 witness: a pod with UID and address on the pod network was stored
\* under a configuration whose rules contribute an identifier; the table has
\* the identifier by UID and the two by address.
C15_Witness ==
  /\ podPC = "idle"
  /\ newPod.PodUID # ""
  /\ newPod.Address # ""
  /\ ~newPod.HostNetwork
  /\ assocsLoop(newPod, Associations, 1) # << >>
  /\ \A id \in { Single(ResourceSource, K8SPodUIDKey, newPod.PodUID),
                 Single(ConnectionSource, "", newPod.Address),
                 Single(ResourceSource, K8sIPLabelName, newPod.Address) } :
       id \in DOMAIN Pods /\ Pods[id] = newPod

\* the position of a kind in StartOrder
orderOf(kind) == CHOOSE k \in 1..Len(StartOrder) : StartOrder[k] = kind

\* the kinds launched so far, as a set
Launched == { launched[k] : k \in 1..Len(launched) }

\* C16: Start runs the informers in the order ReplicaSet, Namespace, Node,
\* Deployment, StatefulSet, the replica set informer only when a deployment
\* rule is set; the pod informer is started after all of them, it runs only
\* when every informer run before it has synced or the timer of
\* runInformerWithDependencies has fired, and pod notifications are handled
\* only when it runs.
C16_PodStreamLast ==
  /\ \A i, j \in 1..Len(launched) : i < j => orderOf(launched[i]) < orderOf(launched[j])
  /\ "ReplicaSet" \in Launched => (settings.DeploymentName \/ settings.DeploymentUID)
  /\ stream["Pod"] # "idle" =>
       \A kind \in Kinds \ {"Pod"} : informerCreated(kind) <=> kind \in Launched
  /\ \A kind \in Kinds \ {"Pod"} : stream[kind] # "idle" <=> kind \in Launched
  /\ delivers("Pod") => (dependenciesSynced \/ depTimer = "fired")
  /\ (known # {} \/ podPC # "idle") => delivers("Pod")

\* C16 witness: a pod notification was handled after the replica set, the
\* namespace and the node informer, run in that order, had all synced
\* before the timer fired.
C16_Witness ==
  /\ known # {}
  /\ launched = << "ReplicaSet", "Namespace", "Node" >>
  /\ dependenciesSynced
  /\ depTimer = "armed"
  /\ delivers("Pod")

\* the pod informer runs after the timer fired although a dependency has
\* not synced
C16_TimeoutPath ==
  /\ known # {}
  /\ depTimer = "fired"
  /\ ~dependenciesSynced

\* Start returns from its wait for the pod informer
StartWaitReturns == startPC = "wait" /\ startPC' = "returned"

\* C17: with waitForMetadata, Start returns the error only when its timer
\* has fired and nil only when the pod informer has synced, so it returns
\* the error when the timer fires before the sync; returning, with nil or
\* with the error, leaves every informer as it is, and after the error no
\* informer that was run is stopped and the stores and the table are still
\* written.  Without waitForMetadata Start returns nil in the step that
\* starts the pod informer, whatever has synced.
C17_StartWaitsForPodSync ==
  [][ /\ StartWaitReturns =>
           /\ settings.waitForMetadata
           /\ startResult' \in {"nil", "error"}
           /\ startResult' = "error" => mdTimer = "fired"
           /\ startResult' = "nil" => stream["Pod"] = "synced"
           /\ stream' = stream
           /\ UNCHANGED << cacheVars, storeVars, launched >>
      /\ (startPC = "Pod" /\ startPC' # "Pod") =>
           IF settings.waitForMetadata
             THEN startPC' = "wait" /\ startResult' = "none"
             ELSE startPC' = "returned" /\ startResult' = "nil"
      /\ startResult = "error" =>
           /\ startResult' = "error"
           /\ \A kind \in Kinds : stream[kind] # "idle" => stream'[kind] # "idle" ]_vars

\* C17 witness: Start has returned the error while the pod informer was
\* still waiting for its dependencies; the informers went on, and a pod was
\* stored with the cluster UID of the namespace store.
C17_Witness ==
  /\ startResult = "error"
  /\ mdTimer = "fired"
  /\ depTimer = "armed"
  /\ stream["Pod"] = "synced"
  /\ \E id \in DOMAIN Pods : tagClusterUID \in DOMAIN Pods[id].Attributes

\* Start has returned nil after the pod informer synced
C17_ReturnedNil ==
  /\ settings.waitForMetadata
  /\ startResult = "nil"
  /\ stream["Pod"] = "synced"

\* C18: every access of the pod handler to a shared map holds the lock, at
\* least for reading, and a write to the pod table holds it for writing; no
\* read without the lock happens while another handler is inside its write
\* to the same store.
C18_EveryAccessUnderLock ==
  /\ access # NoAccess => access.lock \in {"read", "write"}
  /\ access.map = "Pods" /\ podPC = "podTableSize" => access.lock = "write"
  /\ ~(access.map = "Namespaces" /\ access.lock = "none" /\ mLock = "Namespace")

\* C18 failing case: the pod handler has read c.Namespaces["kube-system"]
\* without the lock while the namespace handler holds the lock for its
\* write of that key
C18_UnguardedReadDuringWrite ==
  /\ access = [map |-> "Namespaces", lock |-> "none"]
  /\ mLock = "Namespace"
  /\ pending.key = "kube-system"
  /\ podPC = "lock"

\* the pod handler has read len(c.Pods) for the gauge without the lock
C18_UnguardedPodTableSize ==
  /\ access = [map |-> "Pods", lock |-> "none"]
  /\ podPC = "idle"
  /\ Pods # << >>

\* the states c.ReplicaSets can be in
ReplicaSetStores ==
  { << >> }
  \cup { (rs.UID :> controllingDeployment(rs.OwnerReferences, 1)) : rs \in ApiReplicaSets }

\* the record has the DeploymentUID field and the deployment attributes
\* that podFromAPI derives for a pod owned by owner from the one state
\* store of c.ReplicaSets
DerivedFrom(store, pod, owner) ==
  LET found == owner \in DOMAIN store
      deployment == IF found THEN store[owner] ELSE NoDeployment
      named == owner # "" /\ found /\ deployment.Name # ""
  IN /\ pod.DeploymentUID = (IF found THEN deployment.UID ELSE "")
     /\ ~pod.Ignore =>
          /\ K8SDeploymentNameKey \in DOMAIN pod.Attributes
               <=> (settings.DeploymentName /\ named)
          /\ K8SDeploymentNameKey \in DOMAIN pod.Attributes
               => pod.Attributes[K8SDeploymentNameKey] = deployment.Name
          /\ K8SDeploymentUIDKey \in DOMAIN pod.Attributes
               <=> (settings.DeploymentUID /\ named)
          /\ K8SDeploymentUIDKey \in DOMAIN pod.Attributes
               => pod.Attributes[K8SDeploymentUIDKey] = deployment.UID

\* C19: the record that podFromAPI has built has its DeploymentUID field,
\* its deployment name attribute and its deployment UID attribute all
\* derived from one state of the replica set store, whatever replica set
\* notifications are handled meanwhile.
C19_OneSnapshot ==
  podPC = "lock" =>
    \E store \in ReplicaSetStores : DerivedFrom(store, newPod, ownerRS)

\* C19 failing case: a stored record with the name of deployment d1 as
\* attribute and without the UID of d1 in its DeploymentUID field
C19_MixedRecordStored ==
  \E id \in DOMAIN Pods :
    /\ K8SDeploymentNameKey \in DOMAIN Pods[id].Attributes
    /\ Pods[id].Attributes[K8SDeploymentNameKey] = "d1"
    /\ Pods[id].DeploymentUID = ""

\* a record built with no replica set notification in between
C19_ConsistentRecordStored ==
  \E id \in DOMAIN Pods :
    /\ K8SDeploymentNameKey \in DOMAIN Pods[id].Attributes
    /\ K8SDeploymentUIDKey \in DOMAIN Pods[id].Attributes
    /\ Pods[id].DeploymentUID = "du1"

\* C20: with neither the deployment name nor the deployment UID rule, the
\* replica set informer is never run, the replica set store is empty, and
\* the record being built and every stored record have an empty
\* DeploymentUID, and no deployment attribute, whatever replica set owns
\* the pod.
C20_NoReplicaSetInformer ==
  ~(settings.DeploymentName \/ settings.DeploymentUID) =>
    /\ stream["ReplicaSet"] = "idle"
    /\ "ReplicaSet" \notin Launched
    /\ mLock # "ReplicaSet"
    /\ ReplicaSets = << >>
    /\ newPod.DeploymentUID = ""
    /\ \A id \in DOMAIN Pods :
         /\ Pods[id].DeploymentUID = ""
         /\ K8SDeploymentNameKey \notin DOMAIN Pods[id].Attributes
         /\ K8SDeploymentUIDKey \notin DOMAIN Pods[id].Attributes

\* C20 witness: without the deployment rules, the record of a pod owned by
\* replica set rs1 has just been stored, after Start went past the replica
\* set informer and the other informers synced
C20_Witness ==
  /\ ~(settings.DeploymentName \/ settings.DeploymentUID)
  /\ startPC = "returned"
  /\ ownerRS = "rs1"
  /\ podPC = "podTableSize"
  /\ ~newPod.Ignore
  /\ \E id \in DOMAIN Pods : Pods[id] = newPod

\* Start has gone past the kind
startPast(kind) ==
  startPC \in {"Pod", "wait", "returned"}
    \/ (startPC \in (Kinds \ {"Pod"}) /\ orderOf(startPC) > orderOf(kind))

\* the store of a kind
StoreOf(kind) ==
  CASE kind = "ReplicaSet" -> ReplicaSets
    [] kind = "Namespace" -> Namespaces
    [] kind = "Node" -> Nodes
    [] kind = "Deployment" -> Deployments
    [] kind = "StatefulSet" -> StatefulSets

\* the rules ask for the labels, the annotations or the UID of the kind
requestsMetadataOrUID(kind) ==
  CASE kind = "Node" -> settings.NodeMetadata \/ settings.NodeUID
    [] kind = "Deployment" -> settings.DeploymentMetadata \/ settings.DeploymentUID
    [] kind = "StatefulSet" -> settings.StatefulSetMetadata \/ settings.StatefulSetUID

\* the rules ask for the labels or the annotations of the kind or, for
\* nodes, for the UID
requestsMetadataOrNodeUID(kind) ==
  CASE kind = "Node" -> settings.NodeMetadata \/ settings.NodeUID
    [] kind = "Deployment" -> settings.DeploymentMetadata
    [] kind = "StatefulSet" -> settings.StatefulSetMetadata

\* the informer of the kind is run by Start exactly when requests(kind),
\* and otherwise stays idle with an empty store
StartedIff(requests(_), kind) ==
  /\ stream[kind] # "idle" <=> kind \in Launched
  /\ kind \in Launched => requests(kind)
  /\ (requests(kind) /\ startPast(kind)) => kind \in Launched
  /\ ~requests(kind) => (stream[kind] = "idle" /\ StoreOf(kind) = << >>)

\* C21 as stated: the informers of nodes, deployments and stateful sets are
\* each run if and only if the rules ask for the labels, the annotations or
\* the UID of the kind, and otherwise are never run and leave the store
\* empty.
C21_StartedIffMetadataOrUID ==
  \A kind \in {"Node", "Deployment", "StatefulSet"} :
    StartedIff(requestsMetadataOrUID, kind)

\* C21: the node informer is run if and only if the rules ask for the
\* labels, the annotations or the UID of nodes, the deployment and the
\* stateful set informer if and only if the rules ask for the labels or the
\* annotations of the kind (the UID rules of these two kinds run neither);
\* an informer that is not run leaves its store empty.
C21_StartedIffMetadataOrNodeUID ==
  \A kind \in {"Node", "Deployment", "StatefulSet"} :
    StartedIff(requestsMetadataOrNodeUID, kind)

\* C21 witness: with the stateful set labels and the deployment UID rule,
\* Start has returned, the stateful set store is filled by its informer and
\* the deployment informer was never run
C21_Witness ==
  /\ settings.StatefulSetMetadata /\ settings.DeploymentUID
  /\ startPC = "returned"
  /\ StatefulSets # << >>
  /\ stream["StatefulSet"] = "synced"
  /\ stream["Deployment"] = "idle"
  /\ Deployments = << >>

\* the node informer run for the node UID rule alone has filled the store
C21_NodeUIDAlone ==
  /\ settings.NodeUID /\ ~settings.NodeMetadata
  /\ Nodes # << >>

\* every goroutine New and Start have started has returned
AllTerminated ==
  /\ "deleteLoop" \in terminated
  /\ \A kind \in Kinds : informerCreated(kind) => kind \in terminated

\* C22: once c.stopCh is closed, deleteLoop and every informer goroutine
\* return in the end, also a pod informer goroutine that waits for its
\* dependencies; a handler call that is in progress ends; and when all have
\* returned, the pod table, the stores and the delete queue stay as they
\* are.
C22_StopTerminatesAll ==
  /\ (stopCh = "closed") ~> AllTerminated
  /\ (stopCh = "closed" /\ podPC # "idle") ~> (podPC = "idle")
  /\ (stopCh = "closed" /\ mLock # "free") ~> (mLock = "free")
  /\ [][AllTerminated =>
          UNCHANGED << Pods, deleteQueue, ReplicaSets, Namespaces, Nodes,
                       Deployments, StatefulSets >>]_vars

\* C22 witness: everything has returned after a Stop that found the pod
\* informer waiting for a replica set informer that never synced, so that
\* the 5s timer ended the wait; a pod handler had stored a pod
C22_Witness ==
  /\ stopCh = "closed"
  /\ AllTerminated
  /\ stream["ReplicaSet"] = "running"
  /\ depTimer = "fired"
  /\ stream["Pod"] \in {"running", "synced"}

\* Stop has been called while a pod handler was about to store its record,
\* and the record is stored
C22_HandlerCompleted ==
  /\ stopCh = "closed"
  /\ AllTerminated
  /\ Pods # << >>

\* C23: a getter can be called in every state in which the lock c.m is not
\* held for writing, whatever Start and the informers have done so far, and
\* it returns the record of the key and true when the key is in its store
\* and false when it is not, leaving the stores and the table as they are.
C23_GettersNeverWaitForWatch ==
  /\ [](mLock = "free" /\ nEvents < MaxEvents =>
          /\ \A kind \in GetterKinds : \A key \in LookupKeys(kind) :
               ENABLED getterCall(kind, key)
          /\ \A id \in LookupIdentifiers : ENABLED GetPodLocked(id))
  /\ [][/\ \A kind \in GetterKinds : \A key \in LookupKeys(kind) :
             getterCall(kind, key) =>
               /\ lookup'.found <=> key \in DOMAIN StoreOf(kind)
               /\ lookup'.found => lookup'.record = StoreOf(kind)[key]
               /\ UNCHANGED << Pods, ReplicaSets, Namespaces, Nodes, Deployments,
                               StatefulSets, deleteQueue >>
        /\ \A id \in LookupIdentifiers :
             GetPodLocked(id) =>
               /\ got'.ok <=> (id \in DOMAIN Pods /\ ~Pods[id].Ignore)
               /\ UNCHANGED << Pods, ReplicaSets, Namespaces, Nodes, Deployments,
                               StatefulSets, deleteQueue >>]_vars

\* C23 witness: while the pod informer waits for its dependencies and the
\* node informer has not synced, GetNode and GetPod have returned not found
C23_Witness ==
  /\ stream["Pod"] = "waiting"
  /\ stream["Node"] = "running"
  /\ lookup = [kind |-> "Node", key |-> "n1", record |-> "", found |-> FALSE]
  /\ got.id \in LookupIdentifiers
  /\ ~got.ok

\* a getter has been called before Start ran any informer
C23_BeforeStart ==
  /\ launched = << >>
  /\ lookup # NoLookup
  /\ ~lookup.found

\* a getter has found a record before its informer synced
C23_FoundBeforeSync ==
  /\ lookup.found
  /\ stream[lookup.kind] = "running"

\* the payload is of the type the handler of the kind expects, on Delete
\* after the DeletedFinalStateUnknown is taken off
expectedPayload(kind, handler, obj) ==
  /\ obj.type = kind
  /\ obj.final => handler = "Delete"

\* the calls of a handler with a payload that is not of the type it expects
UnexpectedCalls ==
  { c \in UNION { { << kind, handler, obj >> : handler \in Handlers,
                                                obj \in Payloads(kind) } :
                  kind \in Kinds } :
      ~expectedPayload(c[1], c[2], c[3]) }

\* C24: a call of an Add, Update or Delete handler of any kind with a
\* payload that is not of the type it expects changes neither the pod
\* table, nor a store, nor the delete queue, and starts no write: a step
\* that changes one of them is no such call.
C24_UnexpectedPayloadDropped ==
  [][\/ /\ UNCHANGED << Pods, ReplicaSets, Namespaces, Nodes, Deployments,
                        StatefulSets, deleteQueue >>
        /\ UNCHANGED << mLock, pending, podPC, newPod, ids, known >>
     \/ \A c \in UnexpectedCalls : ~Notify(c[1], c[2], c[3])]_vars

\* C24 witness: a pod handler was called with a payload of another type or
\* with a DeletedFinalStateUnknown on Add or Update, and recorded the size
\* of the pod table; the table and the node store hold what the handlers
\* stored from the payloads of their type
C24_Witness ==
  /\ access = [map |-> "Pods", lock |-> "none"]
  /\ Pods # << >>
  /\ Nodes # << >>
  /\ podPC = "idle"

\* the key of an object in the store of its kind: the name for namespaces
\* and nodes, the UID for deployments, stateful sets and replica sets
keyOf(kind, object) ==
  IF kind \in {"Namespace", "Node"} THEN object.Name ELSE object.UID

\* what the record built from an object holds
recordOf(kind, object) ==
  CASE kind = "Namespace" -> object.UID
    [] kind = "Node" -> object.UID
    [] kind = "Deployment" -> object.Name
    [] kind = "StatefulSet" -> object.Name
    [] kind = "ReplicaSet" -> controllingDeployment(object.OwnerReferences, 1)

\* the store with the record under the key and its other entries as they are
stored(store, k, record) ==
  [x \in DOMAIN store \cup {k} |-> IF x = k THEN record ELSE store[x]]

\* the store without the key and its other entries as they are
removed(store, k) == [x \in DOMAIN store \ {k} |-> store[x]]

\* the kinds whose handlers are modelled as one step; the handlers of the
\* other two take c.m in one step and write and release it in the next
OneStepKinds == { "Node", "Deployment", "StatefulSet" }

\* C25, kinds handled in one step: an Add or Update handler for an object
\* leaves its store with the record of that object under its key, a Delete
\* handler leaves the store without the key, and the getter of the kind then
\* finds nothing; the entries under other keys are as before.
C25_OneStep ==
  \A kind \in OneStepKinds : \A object \in ObjectsOf(kind) :
    LET k == keyOf(kind, object) IN
    /\ \A handler \in {"Add", "Update"} :
         Notify(kind, handler, Payload(kind, object, FALSE)) =>
           StoreOf(kind)' = stored(StoreOf(kind), k, recordOf(kind, object))
    /\ \A final \in BOOLEAN :
         Notify(kind, "Delete", Payload(kind, object, final)) =>
           /\ StoreOf(kind)' = removed(StoreOf(kind), k)
           /\ ~Getter(kind, k).ok'

\* C25, replica sets and namespaces: the handler takes c.m with the write of
\* the record of its object (or the removal of its key) to make, nothing
\* touches the store while it holds c.m, and when it releases c.m the store
\* holds the record under the key (or no such key) and the other entries
\* as before.
C25_TwoSteps ==
  \A kind \in {"ReplicaSet", "Namespace"} :
    /\ \A object \in ObjectsOf(kind) :
         LET k == keyOf(kind, object) IN
         /\ \A handler \in {"Add", "Update"} :
              Notify(kind, handler, Payload(kind, object, FALSE)) =>
                /\ mLock' = kind
                /\ pending'.op = "put" /\ pending'.key = k
                /\ recordOf(kind, object) =
                     IF kind = "Namespace" THEN pending'.value.UID ELSE pending'.value
         /\ \A final \in BOOLEAN :
              Notify(kind, "Delete", Payload(kind, object, final)) =>
                /\ mLock' = kind
                /\ pending'.op = "delete" /\ pending'.key = k
    /\ (mLock = kind /\ mLock' = kind) => UNCHANGED << StoreOf(kind), pending >>
    /\ (mLock = kind /\ mLock' # kind) =>
         /\ pending.op = "put" =>
              StoreOf(kind)' =
                stored(StoreOf(kind), pending.key,
                       IF kind = "Namespace" THEN pending.value.UID ELSE pending.value)
         /\ pending.op = "delete" =>
              /\ StoreOf(kind)' = removed(StoreOf(kind), pending.key)
              /\ kind = "Namespace" => ~GetNamespace(pending.key).ok'

\* C25: for each kind but pods, after an Add or Update handler for a key the
\* store maps the key to the record of that event, after a Delete handler
\* the key is absent at once and the getter finds nothing, and the entries
\* under other keys are unchanged.
C25_LastEventWins == [][C25_OneStep /\ C25_TwoSteps]_vars

\* C25 witness: the node store holds, next to another node, the record of
\* the later of two events for the same name, and the deployment store the
\* record of the later of two events for the same UID or nothing
C25_Witness ==
  /\ DOMAIN Nodes = {"n1", "n2"}
  /\ Nodes["n1"] = "nu2"

\* the deployment store holds the record of the second deployment
C25_DeploymentReplaced ==
  /\ "du1" \in DOMAIN Deployments
  /\ Deployments["du1"] = "d2"

\* a namespace was stored and a second write to the store is under way
C25_NamespaceWrite ==
  /\ mLock = "Namespace"
  /\ Namespaces # << >>
  /\ pending.op = "delete"

\* kube-system is not in the namespace store, and a write to the store
\* that is under way does not put it there
kubeSystemAbsent ==
  /\ "kube-system" \notin DOMAIN Namespaces
  /\ "kube-system" \notin DOMAIN writtenNamespaces

\* kube-system is in the namespace store, and a write to the store that is
\* under way does not remove it
kubeSystemPresent ==
  /\ "kube-system" \in DOMAIN Namespaces
  /\ "kube-system" \in DOMAIN writtenNamespaces

\* the record has the cluster UID attribute
hasClusterUID(pod) == tagClusterUID \in DOMAIN pod.Attributes

\* C26: with Rules.ClusterUID, the step of extractPodAttributes that looks
\* kube-system up goes on building the record in either case: without the
\* cluster UID attribute while kube-system is absent from the namespace
\* store, with the UID of the kube-system record as the attribute while it
\* is present; and addOrUpdatePod stores the record as built under every
\* identifier that holds no pod started later.
C26_ClusterUIDFromKubeSystem ==
  [][/\ (settings.ClusterUID /\ extractClusterUID) =>
          /\ podPC' = "lock"
          /\ kubeSystemAbsent => ~hasClusterUID(newPod')
          /\ kubeSystemPresent =>
               /\ hasClusterUID(newPod')
               /\ newPod'.Attributes[tagClusterUID]
                    \in { Namespaces["kube-system"], writtenNamespaces["kube-system"] }
     /\ addOrUpdatePodPut =>
          LET idSeq == getIdentifiersFromAssoc(Associations, newPod) IN
          \A i \in 1..Len(idSeq) :
            ~(idSeq[i] \in DOMAIN Pods
                /\ Before(newPod.StartTime, Pods[idSeq[i]].StartTime)) =>
              /\ idSeq[i] \in DOMAIN Pods'
              /\ Pods'[idSeq[i]] = newPod]_vars

\* C26 witness: with Rules.ClusterUID a record built while kube-system was
\* not in the store is in the pod table without the attribute
C26_Witness ==
  /\ settings.ClusterUID
  /\ Namespaces = << >>
  /\ mLock = "free"
  /\ \E id \in DOMAIN Pods : ~hasClusterUID(Pods[id])

\* a record in the pod table carries the UID of the kube-system record
C26_Carries ==
  /\ settings.ClusterUID
  /\ "kube-system" \in DOMAIN Namespaces
  /\ \E id \in DOMAIN Pods :
       /\ hasClusterUID(Pods[id])
       /\ Pods[id].Attributes[tagClusterUID] = Namespaces["kube-system"]

\* kube-system was stored and deleted: the table holds a record with the
\* attribute, and a record built after the removal has none
C26_AfterDelete ==
  /\ settings.ClusterUID
  /\ Namespaces = << >>
  /\ mLock = "free"
  /\ podPC = "lock"
  /\ ~hasClusterUID(newPod)
  /\ \E id \in DOMAIN Pods : hasClusterUID(Pods[id])

\* the positions of the owner references of kind Deployment whose
\* controller flag is set and true
controllers(refs) ==
  { i \in 1..Len(refs) : refs[i].Kind = "Deployment" /\ refs[i].Controller = "true" }

\* the first of them
firstController(refs) ==
  CHOOSE i \in controllers(refs) : \A j \in controllers(refs) : i <= j

\* C27: the record a ReplicaSet Add or Update handler stores has a
\* Deployment exactly when the replica set has an owner reference of kind
\* Deployment with the controller flag set, and then the name and UID of
\* the first such reference; podFromAPI sets the DeploymentUID of a pod
\* record to the Deployment UID of the record the store holds for the
\* owning replica set, and leaves it empty when the store has no such record
\* or the record has no Deployment.
C27_FirstControllingDeployment ==
  [][/\ \A rs \in ApiReplicaSets :
          handleReplicaSetAdd(rs) =>
            LET refs == rs.OwnerReferences IN
            /\ pending'.op = "put" /\ pending'.key = rs.UID
            /\ controllers(refs) = {} <=> pending'.value = NoDeployment
            /\ controllers(refs) # {} =>
                 /\ pending'.value.Name = refs[firstController(refs)].Name
                 /\ pending'.value.UID = refs[firstController(refs)].UID
     /\ (replicaSetWrite /\ pending.op = "put") =>
          /\ pending.key \in DOMAIN ReplicaSets'
          /\ ReplicaSets'[pending.key] = pending.value
     /\ podFromAPIDeploymentUID =>
          newPod'.DeploymentUID =
            IF ownerRS \in DOMAIN ReplicaSets THEN ReplicaSets[ownerRS].UID ELSE ""]_vars

\* C27 witness: the store holds the record of a replica set with its
\* controlling deployment, and the pod table a pod built afterwards with the
\* UID of that deployment
C27_Witness ==
  /\ "rs1" \in DOMAIN ReplicaSets
  /\ ReplicaSets["rs1"] = [Name |-> "d1", UID |-> "du1"]
  /\ \E id \in DOMAIN Pods : Pods[id].DeploymentUID = "du1"

\* a pod owned by the replica set was built while the store held a record
\* without Deployment for it
C27_NoControllingDeployment ==
  /\ "rs1" \in DOMAIN ReplicaSets
  /\ ReplicaSets["rs1"] = NoDeployment
  /\ ownerRS = "rs1"
  /\ podPC = "extractDeploymentName"
  /\ newPod.DeploymentUID = ""

\* a pod owned by the replica set was built while the store had no record
\* for it
C27_UnknownReplicaSet ==
  /\ ReplicaSets = << >>
  /\ mLock = "free"
  /\ ownerRS = "rs1"
  /\ podPC = "extractDeploymentName"
  /\ newPod.DeploymentUID = ""

\* ------------------------------------------------------------------------
\* New
\* ------------------------------------------------------------------------

\* New has been called and has done nothing yet
NotBuilt ==
  [pc |-> "NewTelemetryBuilder", client |-> "nil", err |-> "nil", deleteLoop |-> FALSE]

\* the errors a call made by New returns: none, or one of two
NewErrors == { "nil", "e1", "e2" }

\* a label filter: its operator, and whether labels.NewRequirement accepts
\* its key and value
LabelFilter(op, valid) == [Op |-> op, Valid |-> valid]

\* a field filter
FieldFilter(op) == [Op |-> op]

\* the filters New is given: none, accepted ones, and ones with an operator
\* or a requirement that is refused
NewFilters ==
  { [Labels |-> << >>, Fields |-> << >>],
    [Labels |-> << LabelFilter("=", TRUE), LabelFilter("exists", TRUE) >>,
     Fields |-> << FieldFilter("="), FieldFilter("!=") >>],
    [Labels |-> << LabelFilter("in", TRUE) >>, Fields |-> << >>],
    [Labels |-> << LabelFilter("=", TRUE), LabelFilter("notin", TRUE) >>,
     Fields |-> << >>],
    [Labels |-> << LabelFilter("!=", FALSE) >>, Fields |-> << FieldFilter("=") >>],
    [Labels |-> << LabelFilter("=", TRUE) >>, Fields |-> << FieldFilter("in") >>],
    [Labels |-> << >>, Fields |-> << FieldFilter("="), FieldFilter("exists") >>] }

\* selectorsFromFilters, the loop over filters.Fields from position i: the
\* error it returns
RECURSIVE fieldSelectorError(_, _)
fieldSelectorError(fields, i) ==
  IF i > Len(fields) THEN "nil"
  ELSE IF fields[i].Op \in {"=", "!="}
    THEN fieldSelectorError(fields, i + 1)
    ELSE "field filters don't support operator"

\* selectorsFromFilters, the loop over filters.Labels from position i and
\* then the loop over filters.Fields: the error it returns
RECURSIVE selectorsFromFilters(_, _)
selectorsFromFilters(filters, i) ==
  IF i > Len(filters.Labels) THEN fieldSelectorError(filters.Fields, 1)
  ELSE IF filters.Labels[i].Op \in {"in", "notin"}
    THEN "label filters don't support operator"
    ELSE IF ~filters.Labels[i].Valid
      THEN "labels.NewRequirement"
      ELSE selectorsFromFilters(filters, i + 1)

\* a return of the client together with the error
returnClientAndError(err) ==
  [construction EXCEPT !.pc = "returned", !.client = "c", !.err = err]

\* return nil, err
returnError(err) ==
  [construction EXCEPT !.pc = "returned", !.client = "nil", !.err = err]

\* what a step of New leaves alone
NewUnchanged ==
  /\ UNCHANGED << cacheVars, startVars, storeVars >>
  /\ UNCHANGED << Nodes, Deployments, StatefulSets, lookup, stopCh, terminated, lockVars >>
  /\ UNCHANGED exportVars

\* metadata.NewTelemetryBuilder(set); then the WatchClient is made and
\* deleteLoop started
NewTelemetryBuilder(err) ==
  /\ construction.pc = "NewTelemetryBuilder"
  /\ construction' = IF err # "nil"
                       THEN returnError(err)
                       ELSE [construction EXCEPT !.pc = "newClientSet",
                                                 !.deleteLoop = TRUE]
  /\ NewUnchanged

\* newClientSet(apiCfg)
newClientSet(err) ==
  /\ construction.pc = "newClientSet"
  /\ construction' = IF err # "nil"
                       THEN returnError(err)
                       ELSE [construction EXCEPT !.pc = "selectorsFromFilters"]
  /\ NewUnchanged

\* selectorsFromFilters(c.Filters)
compileSelectors(filters) ==
  /\ construction.pc = "selectorsFromFilters"
  /\ LET err == selectorsFromFilters(filters, 1)
     IN construction' = IF err # "nil"
                          THEN returnError(err)
                          ELSE [construction EXCEPT !.pc = "informer.SetTransform"]
  /\ NewUnchanged

\* c.informer.SetTransform; the replica set informer is made next when a
\* deployment name or UID rule is set
podSetTransform(err) ==
  /\ construction.pc = "informer.SetTransform"
  /\ construction' =
       IF err # "nil"
         THEN returnError(err)
         ELSE [construction EXCEPT
                 !.pc = IF informerCreated("ReplicaSet")
                          THEN "replicasetInformer.SetTransform" ELSE "return"]
  /\ NewUnchanged

\* c.replicasetInformer.SetTransform
replicaSetSetTransform(err) ==
  /\ construction.pc = "replicasetInformer.SetTransform"
  /\ construction' = IF err # "nil"
                       THEN returnError(err)
                       ELSE [construction EXCEPT !.pc = "return"]
  /\ NewUnchanged

\* the node, deployment and stateful set informers, and return c, err
NewReturns ==
  /\ construction.pc = "return"
  /\ construction' = [construction EXCEPT !.pc = "returned", !.client = "c"]
  /\ NewUnchanged

\* the caller of New has a Client to call Start on
usable == construction.pc = "returned" /\ construction.client = "c"

\* New is called with the given settings
InitNew ==
  /\ Pods = << >>
  /\ deleteQueue = << >>
  /\ Associations = << >>
  /\ now = 0
  /\ podPC = "idle"
  /\ newPod = NoPod
  /\ ids = << >>
  /\ dlPC = "wait"
  /\ toDelete = << >>
  /\ got = [id |-> ZeroIdentifier, pod |-> NoPod, ok |-> FALSE]
  /\ nEvents = 0
  /\ known = {}
  /\ latest = [u \in UIDs |-> NoTime]
  /\ settings \in WatchSettings
  /\ startPC = StartOrder[1]
  /\ launched = << >>
  /\ stream = [k \in Kinds |-> "idle"]
  /\ depTimer = "off"
  /\ mdTimer = "off"
  /\ startResult = "none"
  /\ ReplicaSets = << >>
  /\ Namespaces = << >>
  /\ mLock = "free"
  /\ pending = NoWrite
  /\ ownerRS = ""
  /\ access = NoAccess
  /\ Nodes = << >>
  /\ Deployments = << >>
  /\ StatefulSets = << >>
  /\ lookup = NoLookup
  /\ stopCh = "open"
  /\ terminated = {}
  /\ construction = NotBuilt
  /\ deleteMut = "free"
  /\ mReaders = {}
  /\ mWaiting = {}
  /\ taskPC = [t \in Tasks |-> Idle]
  /\ concurrency = 1
  /\ ExporterIdle

\* a step of Start, which the caller can call on a Client only
StartOnClient ==
  /\ usable
  /\ \/ \E kind \in Kinds : StartInformer(kind)
     \/ StartPodInformer
     \/ \E kind \in Kinds : InformerSynced(kind)
     \/ DependencyTimeout
     \/ runInformerWithDependencies
     \/ MetadataTimeout
     \/ StartReturns

NextNew ==
  \/ \E err \in NewErrors : NewTelemetryBuilder(err)
  \/ \E err \in NewErrors : newClientSet(err)
  \/ \E filters \in NewFilters : compileSelectors(filters)
  \/ \E err \in NewErrors : podSetTransform(err)
  \/ \E err \in NewErrors : replicaSetSetTransform(err)
  \/ NewReturns
  \/ StartOnClient

SpecNew == InitNew /\ [][NextNew]_vars

\* New has returned an error
failed == construction.pc = "returned" /\ construction.err # "nil"

\* C28: when newClientSet, selectorsFromFilters or a SetTransform returns
\* an error, New returns that error and a nil Client, at once; a New that
\* has returned an error has returned no Client, and no step of Start is
\* ever taken for it: no informer is run and Start returns nothing.
C28_FailedNewReturnsNoClient ==
  /\ [](failed =>
          /\ construction.client = "nil"
          /\ launched = << >>
          /\ \A kind \in Kinds : stream[kind] = "idle"
          /\ startResult = "none")
  /\ [][/\ \A err \in NewErrors \ {"nil"} :
             (newClientSet(err) \/ podSetTransform(err) \/ replicaSetSetTransform(err)) =>
               /\ failed'
               /\ construction'.err = err
               /\ construction'.client = "nil"
        /\ \A filters \in NewFilters :
             (compileSelectors(filters) /\ selectorsFromFilters(filters, 1) # "nil") =>
               /\ failed'
               /\ construction'.err = selectorsFromFilters(filters, 1)
               /\ construction'.client = "nil"
        /\ failed => UNCHANGED construction]_vars

\* C28 witness: New, called with a deployment rule, has returned the error
\* of newClientSet or of a SetTransform, after it had started deleteLoop
C28_Witness ==
  /\ failed
  /\ construction.deleteLoop
  /\ informerCreated("ReplicaSet")
  /\ construction.err \in {"e1", "e2"}

\* New has returned an error of selectorsFromFilters
C28_SelectorError ==
  /\ failed
  /\ construction.err = "field filters don't support operator"

\* New has returned the client and Start has returned
C28_Started ==
  /\ usable
  /\ startResult # "none"

\* ------------------------------------------------------------------------
\* The locks c.m and c.deleteMut
\* ------------------------------------------------------------------------

\* GetPod, the other getters, getReplicaSet and getStatefulSet: the lock
\* operations of one call
GetPodOps == << "m.RLock", "m.RUnlock" >>

\* appendDeleteQueue
appendDeleteQueueOps == << "deleteMut.Lock", "deleteMut.Unlock" >>

\* a handler that writes a store: addOrUpdateNamespace and the like, and
\* the loop of addOrUpdatePod
writeOps == << "m.Lock", "m.Unlock" >>

\* a pass of deleteLoop that takes c.m before it releases c.deleteMut
deleteLoopOpsNested == << "deleteMut.Lock", "m.Lock", "deleteMut.Unlock", "m.Unlock" >>

\* a pass of deleteLoop: the scan of the queue under c.deleteMut, then the
\* removals under c.m
deleteLoopOps == << "deleteMut.Lock", "deleteMut.Unlock", "m.Lock", "m.Unlock" >>

\* podFromAPI with n reads of a store: getReplicaSet and getStatefulSet, and
\* the calls of getReplicaSet in extractPodAttributes
RECURSIVE podFromAPIOps(_)
podFromAPIOps(n) == IF n = 0 THEN << >> ELSE GetPodOps \o podFromAPIOps(n - 1)

\* the numbers of such reads: the two of podFromAPI, and up to two more for
\* a pod owned by a replica set
StoreReads == { 2, 4 }

\* addOrUpdatePod
addOrUpdatePodOps(n) == podFromAPIOps(n) \o writeOps

\* the loop of forgetPod from identifier i: GetPod, and appendDeleteQueue
\* when the pod is found under the identifier with the same name
RECURSIVE forgetPodLoop(_, _)
forgetPodLoop(found, i) ==
  IF i > Len(found) THEN << >>
  ELSE GetPodOps \o (IF found[i] THEN appendDeleteQueueOps ELSE << >>)
         \o forgetPodLoop(found, i + 1)

\* forgetPod
forgetPodOps(n, found) == podFromAPIOps(n) \o forgetPodLoop(found, 1)

\* per identifier of the pod, whether GetPod finds the pod: no identifier,
\* one or two
FoundPerIdentifier ==
  { << >> } \cup { << a >> : a \in BOOLEAN } \cup { << a, b >> : a, b \in BOOLEAN }

\* the functions a goroutine runs, as their lock operations
Programs(t) ==
  CASE t = "deleteLoop" -> { deleteLoopOps }
    [] t = "podInformer" ->
         { addOrUpdatePodOps(n) : n \in StoreReads }
         \cup { forgetPodOps(2, found) : found \in FoundPerIdentifier }
    [] t = "informer" -> { writeOps }
    [] t = "caller" -> { GetPodOps }

\* the lock operation the goroutine is at
nextOp(t) == IF taskPC[t] = Idle THEN "none" ELSE taskPC[t].ops[taskPC[t].i]

\* the goroutine after its operation: at the next one, or out of the function
advance(t) ==
  [taskPC EXCEPT ![t] = IF @.i = Len(@.ops) THEN Idle ELSE [@ EXCEPT !.i = @ + 1]]

\* what a step on the locks leaves alone
LockUnchanged ==
  /\ UNCHANGED << cacheVars, startVars >>
  /\ UNCHANGED << ReplicaSets, Namespaces, pending, ownerRS, access >>
  /\ UNCHANGED << Nodes, Deployments, StatefulSets, lookup, stopCh, terminated,
                  construction >>
  /\ UNCHANGED exportVars

\* the goroutine enters a function: a tick of deleteLoop, a notification, a
\* call by the processor
Call(t, ops) ==
  /\ taskPC[t] = Idle
  /\ taskPC' = [taskPC EXCEPT ![t] = [ops |-> ops, i |-> 1]]
  /\ UNCHANGED << mLock, deleteMut, mReaders, mWaiting >>
  /\ LockUnchanged

\* c.m.RLock(): waits while a goroutine holds c.m for writing or waits for
\* it in Lock()
RLock(t) ==
  /\ nextOp(t) = "m.RLock"
  /\ mLock = "free"
  /\ mWaiting = {}
  /\ mReaders' = mReaders \cup {t}
  /\ taskPC' = advance(t)
  /\ UNCHANGED << mLock, deleteMut, mWaiting >>
  /\ LockUnchanged

\* c.m.RUnlock()
RUnlock(t) ==
  /\ nextOp(t) = "m.RUnlock"
  /\ mReaders' = mReaders \ {t}
  /\ taskPC' = advance(t)
  /\ UNCHANGED << mLock, deleteMut, mWaiting >>
  /\ LockUnchanged

\* c.m.Lock() is called: the readers that come later wait
LockCalled(t) ==
  /\ nextOp(t) = "m.Lock"
  /\ t \notin mWaiting
  /\ mWaiting' = mWaiting \cup {t}
  /\ UNCHANGED << mLock, deleteMut, mReaders, taskPC >>
  /\ LockUnchanged

\* c.m.Lock() returns: no goroutine holds c.m
Lock(t) ==
  /\ nextOp(t) = "m.Lock"
  /\ t \in mWaiting
  /\ mLock = "free"
  /\ mReaders = {}
  /\ mLock' = t
  /\ mWaiting' = mWaiting \ {t}
  /\ taskPC' = advance(t)
  /\ UNCHANGED << deleteMut, mReaders >>
  /\ LockUnchanged

\* c.m.Unlock()
Unlock(t) ==
  /\ nextOp(t) = "m.Unlock"
  /\ mLock' = "free"
  /\ taskPC' = advance(t)
  /\ UNCHANGED << deleteMut, mReaders, mWaiting >>
  /\ LockUnchanged

\* c.deleteMut.Lock()
deleteMutLock(t) ==
  /\ nextOp(t) = "deleteMut.Lock"
  /\ deleteMut = "free"
  /\ deleteMut' = t
  /\ taskPC' = advance(t)
  /\ UNCHANGED << mLock, mReaders, mWaiting >>
  /\ LockUnchanged

\* c.deleteMut.Unlock()
deleteMutUnlock(t) ==
  /\ nextOp(t) = "deleteMut.Unlock"
  /\ deleteMut' = "free"
  /\ taskPC' = advance(t)
  /\ UNCHANGED << mLock, mReaders, mWaiting >>
  /\ LockUnchanged

\* the next lock operation of the goroutine
LockStep(t) ==
  \/ RLock(t)
  \/ RUnlock(t)
  \/ LockCalled(t)
  \/ Lock(t)
  \/ Unlock(t)
  \/ deleteMutLock(t)
  \/ deleteMutUnlock(t)

NextLocks ==
  \/ \E t \in Tasks : \E ops \in Programs(t) : Call(t, ops)
  \/ \E t \in Tasks : RLock(t)
  \/ \E t \in Tasks : RUnlock(t)
  \/ \E t \in Tasks : LockCalled(t)
  \/ \E t \in Tasks : Lock(t)
  \/ \E t \in Tasks : Unlock(t)
  \/ \E t \in Tasks : deleteMutLock(t)
  \/ \E t \in Tasks : deleteMutUnlock(t)

SpecLocks == InitStop /\ [][NextLocks]_vars

\* the goroutine holds c.m, for reading or for writing
holdsM(t) == mLock = t \/ t \in mReaders

\* the goroutine is inside GetPod
inGetPod(t) == nextOp(t) \in {"m.RLock", "m.RUnlock"}

\* C29: c.deleteMut is a lock of its own; no goroutine holds it together
\* with c.m; a goroutine that holds one of the two locks releases it as its
\* next lock operation, so none takes c.m again, or the other lock, while
\* it holds one; a goroutine inside GetPod does not hold c.deleteMut, and
\* GetPod takes c.m whenever no writer holds or awaits it, whoever holds
\* c.deleteMut; and whenever goroutines are inside functions, one of them
\* can take its next step.
C29_LocksNeverNested ==
  /\ \A t \in Tasks :
       /\ ~(holdsM(t) /\ deleteMut = t)
       /\ holdsM(t) => nextOp(t) \in {"m.RUnlock", "m.Unlock"}
       /\ deleteMut = t => nextOp(t) = "deleteMut.Unlock"
       /\ inGetPod(t) => deleteMut # t
       /\ (nextOp(t) = "m.RLock" /\ mLock = "free" /\ mWaiting = {}) => ENABLED RLock(t)
  /\ (\E t \in Tasks : taskPC[t] # Idle) =>
       \E t \in Tasks : taskPC[t] # Idle /\ ENABLED LockStep(t)

\* C29 witness: deleteLoop holds c.deleteMut for its scan while the pod
\* informer, inside GetPod in forgetPod, holds c.m for reading together
\* with the caller, and the informer of another kind waits in c.m.Lock()
C29_Witness ==
  /\ deleteMut = "deleteLoop"
  /\ mReaders = {"podInformer", "caller"}
  /\ "informer" \in mWaiting
  /\ Len(taskPC["podInformer"].ops) > 6

\* the pod informer waits for c.deleteMut in appendDeleteQueue while
\* deleteLoop holds it, and holds no lock
C29_WaitsForDeleteMut ==
  /\ deleteMut = "deleteLoop"
  /\ nextOp("podInformer") = "deleteMut.Lock"
  /\ ~holdsM("podInformer")

\* C30: in every reachable state the requests of the delete queue are in
\* the order of their timestamps, none later than one behind it, whatever
\* the interleaving of the pod Delete handlers, the passes of deleteLoop and
\* the clock.
C30_QueueOrderedByTimestamp ==
  \A i, j \in 1..Len(deleteQueue) : i < j => deleteQueue[i].ts <= deleteQueue[j].ts

\* C30 witness: after a pass of deleteLoop has cut the queue, it holds
\* requests made at different times
C30_Witness ==
  /\ Len(deleteQueue) >= 2
  /\ deleteQueue[1].ts < deleteQueue[Len(deleteQueue)].ts
  /\ dlPC = "apply"

\* the pod of the request was added again after the Delete that queued the
\* request: the informer knows it, its handler has returned, and the table
\* holds a record of that name under the identifier of the request
AddedAgain(d) ==
  /\ d.podName \in known
  /\ podPC = "idle"
  /\ d.id \in DOMAIN Pods
  /\ Pods[d.id].Name = d.podName

\* C31: the removals of a pass of deleteLoop leave an entry in the table
\* when the pod of the request has been added again, under the same name
\* and identifier, after the Delete that queued the request.
C31_ReaddedPodSurvives ==
  [][ApplyStep =>
       \A d \in Requests(toDelete) : AddedAgain(d) => d.id \in DOMAIN Pods']_vars

\* C31 counterexample state: pod a is known to the informer and its handler
\* has returned, and the table has no entry under the UID of a: the request
\* of the earlier Delete has removed the entry of the later Add
C31_ReaddedPodEvicted ==
  /\ "a" \in known
  /\ podPC = "idle"
  /\ uidIdentifier(UIDOf("a")) \notin DOMAIN Pods

\* the Delete of the pod has been processed and deleteLoop has applied every
\* request it queued: the informer no longer knows the pod, the handler has
\* returned, and no request naming the pod is left to apply
DeletedAndEvicted(name) ==
  /\ name \notin known
  /\ podPC = "idle"
  /\ \A d \in Pending : d.podName # name

\* C32: once the Delete of a pod has been processed and every request it
\* queued has been applied, no identifier of the table maps to a record of
\* that pod, also not an identifier only an earlier version of the pod had.
C32_NoEntryOfDeletedPod ==
  \A name \in PodNames :
    DeletedAndEvicted(name) => \A id \in DOMAIN Pods : Pods[id].Name # name

\* C32 counterexample state: pod b was stored with the address ip1, its
\* Delete carried the pod without address, and the entry under the UID has
\* been evicted; the entries under the address still hold the record of b
C32_StaleAddressEntry ==
  /\ DeletedAndEvicted("b")
  /\ dlPC = "wait"
  /\ uidIdentifier(UIDOf("b")) \notin DOMAIN Pods
  /\ "a" \notin known
  /\ \E id \in DOMAIN Pods :
       /\ Pods[id].Name = "b"
       /\ ~Pods[id].Ignore
       /\ Pods[id].Address = "ip1"

\* ------------------------------------------------------------------------
\* deleteLoop with a clock that runs on while requests wait
\* ------------------------------------------------------------------------

\* the pods of the notifications: a and b, which share the address ip1
EvictApiPods == { ApiPod("a", "ip1", 1, FALSE), ApiPod("b", "ip1", 1, FALSE) }

\* time passes: up to MaxTime, and beyond while a request in the queue is
\* within its grace period
Elapse ==
  /\ \/ now < MaxTime
     \/ \E d \in Requests(deleteQueue) : now < d.ts + gracePeriod
  /\ now' = now + 1
  /\ UNCHANGED watchVars
  /\ UNCHANGED << Pods, deleteQueue, Associations, podPC, newPod, ids, dlPC,
                  toDelete, got, nEvents, known, latest >>

\* the pod informer, deleteLoop and the clock; c.stopCh stays open
NextEvict ==
  \/ \E pod \in EvictApiPods : handlePodAdd(pod)
  \/ \E pod \in EvictApiPods : handlePodUpdate(pod)
  \/ addOrUpdatePod
  \/ \E pod \in EvictApiPods : handlePodDelete(pod)
  \/ forgetPod
  \/ deleteLoopScan
  \/ deleteLoopApply
  \/ Elapse

\* time passes, and deleteLoop gets its ticks: time.After(interval) fires
\* again and again, and the pass that has cut the queue goes on to the
\* removals
FairEvict ==
  /\ WF_vars(Elapse)
  /\ WF_vars(deleteLoopScan)
  /\ WF_vars(deleteLoopApply)

SpecEvict == Init /\ [][NextEvict]_vars /\ FairEvict

\* the times a request can carry: the clock runs on past MaxTime only while
\* a request waits for its grace period, and each of the MaxEvents
\* notifications lets it run on by one grace period more
RequestTimes == 0..(MaxTime + (MaxEvents + 1) * gracePeriod)

\* C33: with c.stopCh open and deleteLoop ticking, every request appended to
\* the queue is dequeued and applied in the end: for every time, when the
\* queue holds a request of that time, then later neither the queue nor the
\* pass under way holds one; and no request carries another time.
C33_EveryRequestApplied ==
  /\ [](\A d \in Pending : d.ts \in RequestTimes)
  /\ \A t \in RequestTimes :
       (\E d \in Requests(deleteQueue) : d.ts = t) ~> (\A d \in Pending : d.ts # t)

\* C33 witness: a pass of deleteLoop has applied the requests of time 0 while
\* a request appended after the clock passed MaxTime waits in the queue
C33_Witness ==
  /\ stopCh = "open"
  /\ dlPC = "wait"
  /\ deleteQueue # << >>
  /\ \A d \in Requests(deleteQueue) : d.ts > MaxTime
  /\ \E id \in DOMAIN Pods : Pods[id].Name = "b"
  /\ \A id \in DOMAIN Pods : Pods[id].Name # "a"
  /\ "a" \notin known

\* C34: every entry of the pod table is stored under an identifier that
\* getIdentifiersFromAssoc derives from the record of that same entry under
\* the configured associations.
C34_StoredUnderOwnIdentifier ==
  \A id \in DOMAIN Pods : id \in IdentifierSet(Pods[id])

\* C34 witness: under a configured association rule the table holds the
\* records of two pods, each under a rule identifier or a fallback identifier
\* of its own, after the later pod took over the address of the earlier one
C34_Witness ==
  /\ Associations # << >>
  /\ podPC = "idle"
  /\ \E i, j \in DOMAIN Pods :
       /\ Pods[i].Name = "a" /\ Pods[j].Name = "b"
       /\ Pods[i].Address = "ip1" /\ Pods[j].Address = "ip1"
       /\ i # uidIdentifier(Pods[i].PodUID)
       /\ j = PodIdentifierOf(PodIdentifierAttributeFromConnection("ip1"))

\* ------------------------------------------------------------------------
\* The handlers of the five other kinds next to the pod handler that reads
\* their stores
\* ------------------------------------------------------------------------

\* the kinds with a store of their own
StoreKinds == { StartOrder[k] : k \in 1..Len(StartOrder) }

\* the settings New is given: the deployment of a pod and the node UID; the
\* cluster UID and the metadata of nodes, deployments and stateful sets
FrameSettings ==
  { [PlainSettings EXCEPT !.DeploymentName = TRUE, !.DeploymentUID = TRUE,
                          !.NodeUID = TRUE],
    [PlainSettings EXCEPT !.NodeMetadata = TRUE, !.DeploymentMetadata = TRUE,
                          !.StatefulSetMetadata = TRUE, !.ClusterUID = TRUE] }

\* the objects of the notifications: replica set rs1 without owner and
\* controlled by deployment d1, kube-system, one node, one deployment, one
\* stateful set
FrameObjects(kind) ==
  CASE kind = "ReplicaSet" ->
         { rs \in ApiReplicaSets :
             rs.OwnerReferences
               \in { << >>, << OwnerReference("Deployment", "true", "d1", "du1") >> } }
    [] kind = "Namespace" -> ApiNamespaces
    [] OTHER -> LookupObjects(kind)

\* Start has returned nil: the informers New created are running and have
\* synced, the stores and the pod table are empty
InitFrame ==
  /\ Pods = << >>
  /\ deleteQueue = << >>
  /\ Associations = << >>
  /\ now = 0
  /\ podPC = "idle"
  /\ newPod = NoPod
  /\ ids = << >>
  /\ dlPC = "wait"
  /\ toDelete = << >>
  /\ got = [id |-> ZeroIdentifier, pod |-> NoPod, ok |-> FALSE]
  /\ nEvents = 0
  /\ known = {}
  /\ latest = [u \in UIDs |-> NoTime]
  /\ settings \in FrameSettings
  /\ startPC = "returned"
  /\ launched = SelectSeq(StartOrder, informerCreated)
  /\ stream = [k \in Kinds |-> IF informerCreated(k) THEN "synced" ELSE "idle"]
  /\ depTimer = "armed"
  /\ mdTimer = "off"
  /\ startResult = "nil"
  /\ ReplicaSets = << >>
  /\ Namespaces = << >>
  /\ mLock = "free"
  /\ pending = NoWrite
  /\ ownerRS = ""
  /\ access = NoAccess
  /\ Nodes = << >>
  /\ Deployments = << >>
  /\ StatefulSets = << >>
  /\ lookup = NoLookup
  /\ stopCh = "open"
  /\ terminated = {}
  /\ Constructed

\* a step of a handler of the kind: the informer calls it with an object,
\* and for replica sets and namespaces the write under c.m follows
HandlerStep(kind) ==
  \/ \E handler \in Handlers : \E object \in FrameObjects(kind) :
       Notify(kind, handler, Payload(kind, object, FALSE))
  \/ kind = "ReplicaSet" /\ replicaSetWrite
  \/ kind = "Namespace" /\ namespaceWrite

\* the informers call the handlers of the five kinds; pods are added,
\* updated and deleted
NextFrame ==
  \/ \E kind \in StoreKinds : HandlerStep(kind)
  \/ \E pod \in WatchApiPods : podNotification(pod)
  \/ podFromAPIDeploymentUID
  \/ extractDeploymentName
  \/ extractDeploymentUID
  \/ extractClusterUID
  \/ addOrUpdatePodLock
  \/ addOrUpdatePodPut
  \/ recordPodTableSize
  \/ \E pod \in WatchApiPods : mLock = "free" /\ handlePodDelete(pod)
  \/ forgetPod

SpecFrame == InitFrame /\ [][NextFrame]_vars

\* the step leaves the pod table, the delete queue and the stores of the
\* other kinds as they are
OwnStoreOnly(kind) ==
  /\ UNCHANGED << Pods, deleteQueue >>
  /\ \A other \in StoreKinds \ {kind} : StoreOf(other)' = StoreOf(other)

\* C35: a step of an Add, Update or Delete handler of a namespace, node,
\* deployment, stateful set or replica set leaves the pod table, the delete
\* queue and the stores of the other kinds unchanged; the record under an
\* identifier of the pod table is replaced only by addOrUpdatePod, with the
\* record the pod handler has built for its notification.
C35_HandlersChangeOwnStore ==
  [][/\ \A kind \in StoreKinds : HandlerStep(kind) => OwnStoreOnly(kind)
     /\ \A id \in DOMAIN Pods :
          (id \notin DOMAIN Pods' \/ Pods'[id] # Pods[id]) =>
            /\ podPC = "put"
            /\ id \in DOMAIN Pods' /\ Pods'[id] = newPod]_vars

\* C35 witness: the record of pod a, owned by replica set rs1, was stored
\* with an empty DeploymentUID, and then the handler of rs1 has written the
\* record of the replica set with deployment du1 to its store
C35_Witness ==
  /\ podPC = "idle"
  /\ mLock = "free"
  /\ ownerRS = "rs1"
  /\ newPod.Name = "a"
  /\ "rs1" \in DOMAIN ReplicaSets
  /\ ReplicaSets["rs1"].UID = "du1"
  /\ uidIdentifier(UIDOf("a")) \in DOMAIN Pods
  /\ Pods[uidIdentifier(UIDOf("a"))] = newPod
  /\ newPod.DeploymentUID = ""
  /\ K8SDeploymentNameKey \notin DOMAIN newPod.Attributes

\* the record of a pod was stored without the cluster UID, and then the
\* namespace handler has written kube-system to its store
C35_ClusterUIDStillMissing ==
  /\ settings.ClusterUID
  /\ podPC = "idle"
  /\ mLock = "free"
  /\ "kube-system" \in DOMAIN Namespaces
  /\ Nodes # << >>
  /\ \E id \in DOMAIN Pods : ~Pods[id].Ignore /\ ~hasClusterUID(Pods[id])

\* ------------------------------------------------------------------------
\* New, Stop and the deleteLoop goroutine that New starts
\* ------------------------------------------------------------------------

\* Stop, which the caller can call on a Client only
StopOnClient == usable /\ Stop

\* the deleteLoop goroutine of New returns on case <-c.stopCh
deleteLoopOfNew == construction.deleteLoop /\ deleteLoopStops

NextNewStop ==
  \/ NextNew
  \/ StopOnClient
  \/ deleteLoopOfNew

\* New runs to its return, and the select of deleteLoop takes the closed
\* c.stopCh in the end
FairNewStop ==
  /\ WF_vars(NextNew)
  /\ SF_vars(deleteLoopOfNew)

SpecNewStop == InitNew /\ [][NextNewStop]_vars /\ FairNewStop

\* C36: when New has returned an error, the deleteLoop goroutine of the
\* failed instance is not left running: it was never started, or it returns
\* in the end.
C36_FailedNewLeavesNoTask ==
  failed ~> (~construction.deleteLoop \/ "deleteLoop" \in terminated)

\* C36 failing case: New has returned nil and the error of newClientSet, of
\* selectorsFromFilters or of a SetTransform; deleteLoop, started before,
\* waits in its select, c.stopCh is open and nobody holds the client to
\* close it
C36_DeleteLoopLeftRunning ==
  /\ failed
  /\ construction.client = "nil"
  /\ construction.deleteLoop
  /\ "deleteLoop" \notin terminated
  /\ stopCh = "open"
  /\ ~ENABLED NextNewStop

\* New has failed in NewTelemetryBuilder, before deleteLoop is started
C36_NeverStarted ==
  /\ failed
  /\ ~construction.deleteLoop

\* the client New returned was stopped, and its deleteLoop has returned
C36_StoppedClient ==
  /\ usable
  /\ stopCh = "closed"
  /\ "deleteLoop" \in terminated

\* ------------------------------------------------------------------------
\* The remote write exporter: pushMetricsV2, handleExportV2 and exportV2
\* ------------------------------------------------------------------------

\* the values of prwe.concurrency
Concurrencies == 0..MaxConcurrency

\* the errors of a call
ErrTranslate == "FromMetricsV2"

ErrBatch == "batchTimeSeriesV2"

\* consumererror.NewPermanent(err) of a request, as appended to errs
Permanent(kind, request) == [kind |-> kind, request |-> request]

\* what an exporter step leaves alone
ExportUnchanged ==
  /\ UNCHANGED << cacheVars, startVars, storeVars >>
  /\ UNCHANGED << Nodes, Deployments, StatefulSets, lookup, stopCh, terminated,
                  construction, lockVars >>

\* a pushMetricsV2 that returns the translation error when there is one
pushMetricsV2Joined(err, exportResult) ==
  IF err # "nil" THEN err ELSE exportResult

\* what pushMetricsV2 returns: return prwe.handleExportV2(...)
pushMetricsV2Result(err, exportResult) == exportResult

\* handleExportV2 returns, and pushMetricsV2 with it
handleExportV2Returns(c, exportResult) ==
  [c EXCEPT !.pc = "returned", !.exportResult = exportResult,
            !.result = pushMetricsV2Result(c.err, exportResult)]

\* math.Min of two ints
Min(a, b) == IF a <= b THEN a ELSE b

\* the exporter is built with a concurrency; the client is as New left it
InitExport ==
  /\ settings = PlainSettings
  /\ startPC = "returned"
  /\ launched = << "Namespace" >>
  /\ stream = [k \in Kinds |-> IF k \in {"Namespace", "Pod"} THEN "synced" ELSE "idle"]
  /\ depTimer = "off"
  /\ mdTimer = "off"
  /\ startResult = "nil"
  /\ ReplicaSets = << >>
  /\ Namespaces = << >>
  /\ mLock = "free"
  /\ pending = NoWrite
  /\ ownerRS = ""
  /\ access = NoAccess
  /\ Nodes = << >>
  /\ Deployments = << >>
  /\ StatefulSets = << >>
  /\ lookup = NoLookup
  /\ stopCh = "open"
  /\ terminated = {}
  /\ construction = Built
  /\ deleteMut = "free"
  /\ mReaders = {}
  /\ mWaiting = {}
  /\ taskPC = [t \in Tasks |-> Idle]
  /\ Pods = << >>
  /\ deleteQueue = << >>
  /\ Associations = << >>
  /\ now = 0
  /\ podPC = "idle"
  /\ newPod = NoPod
  /\ ids = << >>
  /\ dlPC = "wait"
  /\ toDelete = << >>
  /\ got = [id |-> ZeroIdentifier, pod |-> NoPod, ok |-> FALSE]
  /\ nEvents = 0
  /\ known = {}
  /\ latest = [u \in UIDs |-> NoTime]
  /\ concurrency \in Concurrencies
  /\ ExporterIdle

\* pushMetricsV2, up to the call of handleExportV2: FromMetricsV2 returns
\* the translated series and an error or none; the number of series is
\* recorded, and an error is counted and logged
pushMetricsV2(series, err) ==
  /\ call.pc = "idle"
  /\ call' = [call EXCEPT !.pc = "handleExportV2", !.series = series, !.err = err,
                          !.recorded = TRUE,
                          !.failures = IF err # "nil" THEN @ + 1 ELSE @,
                          !.logged = (err # "nil")]
  /\ UNCHANGED << concurrency, ctx, input, workers, errs, sent >>
  /\ ExportUnchanged

\* handleExportV2, up to the call of batchTimeSeriesV2: with no series it
\* returns nil
handleExportV2 ==
  /\ call.pc = "handleExportV2"
  /\ call' = IF call.series = 0
               THEN handleExportV2Returns(call, "nil")
               ELSE [call EXCEPT !.pc = "batchTimeSeriesV2"]
  /\ UNCHANGED << concurrency, ctx, input, workers, errs, sent >>
  /\ ExportUnchanged

\* batchTimeSeriesV2 returns an error, which handleExportV2 returns, or the
\* series in n requests
batchTimeSeriesV2(n, err) ==
  /\ call.pc = "batchTimeSeriesV2"
  /\ n <= call.series
  /\ call' = IF err # "nil"
               THEN handleExportV2Returns([call EXCEPT !.batched = TRUE], err)
               ELSE [call EXCEPT !.pc = "exportV2", !.batched = TRUE, !.requests = n]
  /\ UNCHANGED << concurrency, ctx, input, workers, errs, sent >>
  /\ ExportUnchanged

\* exportV2, up to wg.Wait(): the requests are put into the channel, the
\* channel is closed, and concurrencyLimit workers are started
exportV2 ==
  /\ call.pc = "exportV2"
  /\ LET concurrencyLimit == Min(concurrency, call.requests)
     IN /\ input' = [k \in 1..call.requests |-> k]
        /\ workers' = [w \in Workers |->
                         IF w <= concurrencyLimit
                           THEN [pc |-> "select", request |-> 0]
                           ELSE NoWorker]
        /\ call' = [call EXCEPT !.pc = "wg.Wait", !.started = concurrencyLimit]
  /\ errs' = << >>
  /\ UNCHANGED << concurrency, ctx, sent >>
  /\ ExportUnchanged

\* the context of the call is cancelled
Cancel ==
  /\ ctx = "live"
  /\ call.pc # "returned"
  /\ ctx' = "done"
  /\ UNCHANGED << concurrency, call, input, workers, errs, sent >>
  /\ ExportUnchanged

\* the select of a worker takes case <-ctx.Done() and the worker returns
workerDone(w) ==
  /\ workers[w].pc = "select"
  /\ ctx = "done"
  /\ workers' = [workers EXCEPT ![w] = [pc |-> "returned", request |-> 0]]
  /\ UNCHANGED << concurrency, ctx, call, input, errs, sent >>
  /\ ExportUnchanged

\* the select of a worker takes case request, ok := <-input: the worker
\* returns when the closed channel is empty, and holds a request otherwise
workerReceive(w) ==
  /\ workers[w].pc = "select"
  /\ IF input = << >>
       THEN /\ workers' = [workers EXCEPT ![w] = [pc |-> "returned", request |-> 0]]
            /\ input' = input
       ELSE /\ workers' = [workers EXCEPT ![w] = [pc |-> "Marshal", request |-> Head(input)]]
            /\ input' = Tail(input)
  /\ UNCHANGED << concurrency, ctx, call, errs, sent >>
  /\ ExportUnchanged

\* buf.protobuf.Marshal(request): on an error the worker appends it to errs
\* and returns; otherwise it calls execute
workerMarshal(w, err) ==
  /\ workers[w].pc = "Marshal"
  /\ LET request == workers[w].request
     IN IF err # "nil"
          THEN /\ errs' = Append(errs, Permanent("errMarshal", request))
               /\ workers' = [workers EXCEPT ![w] = [pc |-> "returned", request |-> 0]]
               /\ sent' = [sent EXCEPT ![request].marshal = "err"]
          ELSE /\ errs' = errs
               /\ workers' = [workers EXCEPT ![w].pc = "execute"]
               /\ sent' = [sent EXCEPT ![request].marshal = "ok",
                                       ![request].executes = @ + 1]
  /\ UNCHANGED << concurrency, ctx, call, input >>
  /\ ExportUnchanged

\* prwe.execute(ctx, buf) returns: an error is appended to errs, and the
\* worker goes on with its loop
workerExecute(w, err) ==
  /\ workers[w].pc = "execute"
  /\ LET request == workers[w].request
     IN /\ errs' = IF err # "nil" THEN Append(errs, Permanent("errExecute", request))
                                  ELSE errs
        /\ sent' = [sent EXCEPT ![request].execute = IF err # "nil" THEN "err" ELSE "ok"]
  /\ workers' = [workers EXCEPT ![w] = [pc |-> "select", request |-> 0]]
  /\ UNCHANGED << concurrency, ctx, call, input >>
  /\ ExportUnchanged

\* wg.Wait() returns when every worker has returned; exportV2 returns errs,
\* and handleExportV2 and pushMetricsV2 return what exportV2 returned
exportV2Returns ==
  /\ call.pc = "wg.Wait"
  /\ \A w \in Workers : workers[w].pc \in {"none", "returned"}
  /\ call' = handleExportV2Returns(call, IF errs = << >> THEN "nil" ELSE "errs")
  /\ UNCHANGED << concurrency, ctx, input, workers, errs, sent >>
  /\ ExportUnchanged

NextExport ==
  \/ \E series \in 0..MaxRequests, err \in {"nil", ErrTranslate} :
       pushMetricsV2(series, err)
  \/ handleExportV2
  \/ \E n \in 1..MaxRequests, err \in {"nil", ErrBatch} : batchTimeSeriesV2(n, err)
  \/ exportV2
  \/ Cancel
  \/ \E w \in Workers : workerDone(w)
  \/ \E w \in Workers : workerReceive(w)
  \/ \E w \in Workers, err \in {"nil", "errMarshal"} : workerMarshal(w, err)
  \/ \E w \in Workers, err \in {"nil", "errExecute"} : workerExecute(w, err)
  \/ exportV2Returns

SpecExport == InitExport /\ [][NextExport]_vars

\* exportV2 was called with the requests of the batching
exportV2Called == call.pc \in {"wg.Wait", "returned"} /\ call.requests > 0

\* exportV2 has returned
exportV2Returned == call.pc = "returned" /\ call.requests > 0

\* the requests exportV2 was given
Given == 1..call.requests

\* the workers inside prwe.execute
inFlight == { w \in Workers : workers[w].pc = "execute" }

\* Marshal has failed for no request
noMarshalError == \A r \in RequestIds : sent[r].marshal # "err"

\* the parts of C37 that hold for every concurrency: the number of workers,
\* the return after the last worker, no request executed twice, the number
\* of executes in flight, and a failed execute in the returned error
workersAndErrors ==
  /\ exportV2Called =>
       /\ call.started = Min(concurrency, call.requests)
       /\ Cardinality({ w \in Workers : workers[w].pc # "none" }) = call.started
  /\ exportV2Returned => \A w \in Workers : workers[w].pc \in {"none", "returned"}
  /\ \A r \in RequestIds : sent[r].executes <= 1
  /\ Cardinality(inFlight) <= Min(concurrency, call.requests)
  /\ exportV2Returned =>
       \A r \in Given :
         sent[r].execute = "err" =>
           /\ call.exportResult = "errs"
           /\ \E k \in 1..Len(errs) : errs[k] = Permanent("errExecute", r)

\* with the context live and no marshal error, every request was executed
\* once when exportV2 returns, also after an execute has failed
everyRequestExecuted ==
  (exportV2Returned /\ ctx = "live" /\ noMarshalError) =>
    \A r \in Given : sent[r].executes = 1 /\ sent[r].execute \in {"ok", "err"}

\* C37: exportV2 starts min(concurrency, number of requests) workers and
\* returns after the last of them has returned; no request is executed
\* twice and at most that many executes are in flight; a failed execute is
\* in the returned error; and when the context was not cancelled and no
\* Marshal failed, every request has been executed once, whether or not
\* an execute before it failed.
C37_EveryRequestExecutedOnce ==
  /\ workersAndErrors
  /\ everyRequestExecuted

\* C37 failing case: with prwe.concurrency = 0 exportV2 has started no
\* worker and returned nil, the context is live, no Marshal has failed, and
\* no request was executed
C37_NoWorkerNothingSent ==
  /\ concurrency = 0
  /\ exportV2Returned
  /\ ctx = "live"
  /\ noMarshalError
  /\ call.started = 0
  /\ call.exportResult = "nil"
  /\ \A r \in Given : sent[r].executes = 0
  /\ Len(input) = call.requests

\* with at least one worker the whole of C37 holds
C37_WithOneWorkerOrMore == concurrency >= 1 => C37_EveryRequestExecutedOnce

\* one worker has executed all the requests, the first one with an error
C37_GoesOnAfterFailure ==
  /\ concurrency = 1
  /\ exportV2Returned
  /\ ctx = "live"
  /\ call.requests = MaxRequests
  /\ sent[1].execute = "err"
  /\ \A r \in Given \ {1} : sent[r].execute = "ok"
  /\ call.exportResult = "errs"

\* C38: when exportV2 has returned nil, Marshal and execute were called
\* once with every request and returned no error (so that an unsent request
\* or a failed execute means a returned error that is not nil).
C38_NilMeansAllSent ==
  (exportV2Returned /\ call.exportResult = "nil") =>
    \A r \in Given :
      sent[r].marshal = "ok" /\ sent[r].executes = 1 /\ sent[r].execute = "ok"

\* C38 failing case: the context was cancelled, the worker took case
\* <-ctx.Done() of its select and returned without appending to errs, a
\* request is still in the channel, and exportV2 has returned nil
C38_CancelledReturnsNil ==
  /\ concurrency >= 1
  /\ ctx = "done"
  /\ exportV2Returned
  /\ call.exportResult = "nil"
  /\ input # << >>
  /\ errs = << >>
  /\ \E r \in Given : sent[r] = NotSent
  /\ \A w \in Workers : w <= call.started => workers[w].pc = "returned"

\* what does hold: a Marshal or an execute that failed means a returned
\* error that is not nil
C38_FailuresReported ==
  exportV2Returned =>
    ((\E r \in Given : sent[r].marshal = "err" \/ sent[r].execute = "err")
       <=> call.exportResult = "errs")

\* C39: pushMetricsV2 records the number of translated series; a
\* translation error is counted and logged and never returned; with series
\* handleExportV2 goes on to batch them, and pushMetricsV2 returns what
\* handleExportV2 returned; with no series handleExportV2 returns nil and
\* nothing was batched, queued or executed.
C39_TranslationErrorNotReturned ==
  /\ call.pc # "idle" =>
       /\ call.recorded
       /\ call.err # "nil" <=> call.logged
       /\ call.failures = IF call.err # "nil" THEN 1 ELSE 0
  /\ call.pc = "returned" =>
       /\ call.result = call.exportResult
       /\ call.result # ErrTranslate
       /\ call.series > 0 => call.batched
       /\ call.series = 0 =>
            /\ call.result = "nil"
            /\ ~call.batched
            /\ call.requests = 0 /\ call.started = 0
            /\ input = << >>
            /\ \A w \in Workers : workers[w] = NoWorker
            /\ \A r \in RequestIds : sent[r] = NotSent

\* C39 witness: the translation has returned series and an error, the
\* error was counted and logged, every request was executed, and
\* pushMetricsV2 has returned nil
C39_Witness ==
  /\ call.pc = "returned"
  /\ call.err = ErrTranslate
  /\ call.logged
  /\ call.series = MaxRequests
  /\ call.requests = MaxRequests
  /\ \A r \in Given : sent[r].execute = "ok"
  /\ call.result = "nil"

\* the translation has returned an error and no series: pushMetricsV2 has
\* returned nil
C39_NothingTranslated ==
  /\ call.pc = "returned"
  /\ call.err = ErrTranslate
  /\ call.series = 0
  /\ call.result = "nil"

\* the translation has returned an error, and pushMetricsV2 the error of
\* batchTimeSeriesV2
C39_BatchError ==
  /\ call.pc = "returned"
  /\ call.err = ErrTranslate
  /\ call.result = ErrBatch

====
